---- MODULE Spec2Model ----
(***************************************************************************)
(* Billing ETL scripts of backend/src/scripts: the relational billing      *)
(* tables, the batch runs that write them, and the text parsers.           *)
(*                                                                         *)
(* A table is a sequence of rows; a serial primary key is the row's index. *)
(* db is what the running script's transaction sees, committed is what the *)
(* database has persisted.                                                 *)
(***************************************************************************)
EXTENDS Integers, Sequences, FiniteSets, TLC

VARIABLES
  db,         \* tables as seen through the script's open connection
  committed,  \* tables persisted by COMMIT
  conn,       \* "none" | "open" | "closed": the psycopg2 connection of the run
  script,     \* which script the current run executes
  args,       \* its command line arguments
  file,       \* the input file content that is read as a whole
  pc,         \* position of the run
  local,      \* local variables of main()
  dbBefore,   \* history: committed when the current run started
  nCommits    \* history: COMMITs of the current run

vars == <<db, committed, conn, script, args, file, pc, local, dbBefore, nCommits>>

\* ---------------------------------------------------------------- bounds
MaxRows == 2        \* data rows of a workbook
MaxSheetRows == 3   \* rows of the Transactions sheet below the header
MaxRecords == 2     \* records of the JSON file after the header rows
MaxRuns == 2        \* runs of the two updaters on one database
MaxItems == 2       \* items of a fee text given to the parser
FirstDataRow == 5   \* row 4 holds the headers

\* ---------------------------------------------------------------- values
NULL == 0           \* SQL NULL / Python None for ids and numbers
NoText == "NULL"    \* SQL NULL / Python None for text columns
Today == 1          \* CURRENT_DATE / NOW() of a run (dates are not compared)

SeqToSet(s) == {s[k] : k \in 1..Len(s)}

\* cursor.fetchone() on a result set without ORDER BY: any row, or None
fetchone(S) == IF S = {} THEN {NULL} ELSE S

\* ------------------------------------------------- fee-arrangement text
\* A fee-arrangement text is a sequence of items.  An item is a stretch of
\* text that starts with at most one ordinal marker "(x)":
\*   ord    the marker as written ("none": the stretch has no marker)
\*   nl     the item starts a new line
\*   amount the number after " - " that closes the item (0: there is none)
\*   short  the description between marker and dash is shorter than three
\*          characters or is a section header ("Original EL")
Item(o, nl, amt, short) == [ord |-> o, nl |-> nl, amount |-> amt, short |-> short]

\* str.lower() on an ordinal marker
lower(o) == CASE o = "(A)" -> "(a)" [] o = "(B)" -> "(b)" [] OTHER -> o

IsLetter(o) == lower(o) \in {"(a)", "(b)", "(c)"}

T_EMPTY  == <<>>
T_AB     == << Item("(a)", TRUE, 5000, FALSE), Item("(b)", TRUE, 5000, FALSE) >>
T_UPPER  == << Item("(A)", TRUE, 5000, FALSE), Item("(a)", TRUE, 7000, FALSE) >>
T_HEADER == << Item("(a)", TRUE, 7000, TRUE),  Item("(b)", TRUE, 7000, FALSE) >>
T_NOAMT  == << Item("(b)", TRUE, 0, FALSE),    Item("(a)", TRUE, 5000, FALSE) >>

FeeTexts == {T_EMPTY, T_AB, T_UPPER, T_HEADER, T_NOAMT}

\* the lines of a text: maximal runs of items up to the next item with nl
RECURSIVE LinesFrom(_, _, _)
LinesFrom(text, k, acc) ==
  IF k > Len(text) THEN acc
  ELSE IF acc = <<>> \/ text[k].nl
       THEN LinesFrom(text, k + 1, Append(acc, <<text[k]>>))
       ELSE LinesFrom(text, k + 1,
              [acc EXCEPT ![Len(acc)] = Append(@, text[k])])

Lines(text) == LinesFrom(text, 1, <<>>)

\* ---------------------------------------------------------------- tables
Project(name, client) == [project_name |-> name, client_name |-> client]

NoFin == [billing |-> 0, collection |-> 0, ubt |-> 0,
          credit_usd |-> 0, credit_cny |-> 0, ubt_cny |-> 0]

CmNo(project_id, cm_no) ==
  [project_id |-> project_id, cm_no |-> cm_no,
   billing_to_date_usd |-> 0, collected_to_date_usd |-> 0, ubt_usd |-> 0,
   billing_credit_usd |-> 0, billing_credit_cny |-> 0, ubt_cny |-> 0,
   financials_updated_at |-> NULL]

Engagement(project_id, cm_id) == [project_id |-> project_id, cm_id |-> cm_id]

FeeArrangement(engagement_id, raw_text, version) ==
  [engagement_id |-> engagement_id, raw_text |-> raw_text, parser_version |-> version]

MilestoneRow(fee_id, engagement_id, ordinal, amount, completed, source, date) ==
  [fee_id |-> fee_id, engagement_id |-> engagement_id, ordinal |-> ordinal,
   amount_value |-> amount, completed |-> completed,
   completion_source |-> source, completion_date |-> date]

EmptyTables ==
  [billing_project |-> <<>>, billing_project_cm_no |-> <<>>,
   billing_engagement |-> <<>>, billing_fee_arrangement |-> <<>>,
   billing_milestone |-> <<>>, billing_finance_comment |-> <<>>,
   billing_invoice |-> <<>>, billing_payment |-> <<>>]

\* ids of the rows of table tbl that satisfy P
Select(tbl, P(_)) == {id \in 1..Len(tbl) : P(tbl[id])}

\* NOW() of the run, later than every stored time
Now == Today + 1

\* ---------------------------------------- update-billing-from-excel.py
\* A run of rich text: its first letter marker and its strike attribute.
Run(o, strike) == [ord |-> o, strike |-> strike]

\* The fee cell (column I): value, rich-text runs (empty when cell.value has
\* no richText attribute), font strike of the whole cell.
Cell(text, rich, strike) == [value |-> text, richText |-> rich, strike |-> strike]

extract_fee_arrangement_text(cell) ==
  LET text == cell.value
      struckRuns == {k \in 1..Len(cell.richText) :
                       cell.richText[k].strike /\ IsLetter(cell.richText[k].ord)}
      fromRuns == {lower(cell.richText[k].ord) : k \in struckRuns}
      fromCell == IF cell.strike
                  THEN {lower(text[k].ord) : k \in {j \in 1..Len(text) : IsLetter(text[j].ord)}}
                  ELSE {}
  IN [text |-> text, completed |-> fromRuns \cup fromCell]

\* re.search of the milestone pattern in one line: the first letter marker
\* that has a " - digits" at or after it on the line; 0 when none matches.
MatchStart(line) ==
  LET ok == {k \in 1..Len(line) :
               /\ IsLetter(line[k].ord)
               /\ \E j \in k..Len(line) : line[j].amount > 0}
  IN IF ok = {} THEN 0 ELSE CHOOSE k \in ok : \A j \in ok : k <= j

MatchAmountAt(line, k) ==
  CHOOSE j \in k..Len(line) :
    line[j].amount > 0 /\ \A i \in k..Len(line) : line[i].amount > 0 => j <= i

RECURSIVE parse_lines(_, _, _, _)
parse_lines(lines, k, seen_ordinals, milestones) ==
  IF k > Len(lines) THEN milestones
  ELSE
    LET line == lines[k]
        m == MatchStart(line)
    IN IF m = 0 THEN parse_lines(lines, k + 1, seen_ordinals, milestones)
       ELSE
         LET ordinal_key == lower(line[m].ord)
             j == MatchAmountAt(line, m)
             header == (j = m) /\ line[m].short
         IN IF ordinal_key \in seen_ordinals
            THEN parse_lines(lines, k + 1, seen_ordinals, milestones)
            ELSE IF header
            THEN parse_lines(lines, k + 1, seen_ordinals \cup {ordinal_key}, milestones)
            ELSE parse_lines(lines, k + 1, seen_ordinals \cup {ordinal_key},
                   Append(milestones,
                          [ordinal |-> ordinal_key, amount_value |-> line[j].amount]))

parse_milestones(text) == parse_lines(Lines(text), 1, {}, <<>>)

\* one worksheet row as load_excel_data turns it into a ProjectData
ExcelProject(cm_no, fin, cell, comment) ==
  LET e == extract_fee_arrangement_text(cell)
  IN [cm_no |-> cm_no, fin |-> fin, finance_comment |-> comment,
      fee_arrangement_text |-> e.text,
      milestones |-> IF e.text # <<>> THEN parse_milestones(e.text) ELSE <<>>,
      completed_milestones |-> e.completed]

find_cm_by_number(t, cm_no) ==
  fetchone(Select(t.billing_project_cm_no, LAMBDA r : r.cm_no = cm_no))

find_engagement_by_cm(t, cm_id) ==
  fetchone(Select(t.billing_engagement, LAMBDA r : r.cm_id = cm_id))

\* the tables update_financials can leave behind
update_financials(t, project) ==
  { IF cm_id = NULL THEN t
    ELSE
      LET f == project.fin
          anyField == \/ f.billing > 0 \/ f.collection > 0 \/ f.ubt > 0
                      \/ f.credit_usd > 0 \/ f.credit_cny > 0 \/ f.ubt_cny > 0
          old == t.billing_project_cm_no[cm_id]
          new == [old EXCEPT
                    !.billing_to_date_usd   = IF f.billing > 0 THEN f.billing ELSE @,
                    !.collected_to_date_usd = IF f.collection > 0 THEN f.collection ELSE @,
                    !.ubt_usd               = IF f.ubt > 0 THEN f.ubt ELSE @,
                    !.billing_credit_usd    = IF f.credit_usd > 0 THEN f.credit_usd ELSE @,
                    !.billing_credit_cny    = IF f.credit_cny > 0 THEN f.credit_cny ELSE @,
                    !.ubt_cny               = IF f.ubt_cny > 0 THEN f.ubt_cny ELSE @,
                    !.financials_updated_at = Now]
      IN IF anyField THEN [t EXCEPT !.billing_project_cm_no[cm_id] = new] ELSE t
    : cm_id \in find_cm_by_number(t, project.cm_no) }

\* the (tables, fee_id) pairs update_fee_arrangement can return; fee_id 0 is None
update_fee_arrangement(t, project) ==
  UNION {
    IF cm_id = NULL THEN {[t |-> t, fee_id |-> NULL]}
    ELSE UNION {
      IF engagement_id = NULL THEN {[t |-> t, fee_id |-> NULL]}
      ELSE {
        IF existing # NULL
        THEN [t |-> [t EXCEPT !.billing_fee_arrangement[existing].raw_text =
                                  project.fee_arrangement_text],
              fee_id |-> existing]
        ELSE [t |-> [t EXCEPT !.billing_fee_arrangement =
                       Append(@, FeeArrangement(engagement_id,
                                                project.fee_arrangement_text, NoText))],
              fee_id |-> Len(t.billing_fee_arrangement) + 1]
        : existing \in fetchone(Select(t.billing_fee_arrangement,
                                       LAMBDA r : r.engagement_id = engagement_id)) }
      : engagement_id \in find_engagement_by_cm(t, cm_id) }
    : cm_id \in find_cm_by_number(t, project.cm_no) }

\* update_one_milestone without the strikethrough check on an existing row
update_one_milestone_no_switch(ms, fee_id, project, milestone, existing) ==
  LET struck == milestone.ordinal \in project.completed_milestones
  IN IF existing # NULL
     THEN [ms EXCEPT ![existing].amount_value = milestone.amount_value]
     ELSE Append(ms, MilestoneRow(fee_id, NULL, milestone.ordinal,
                                  milestone.amount_value, struck,
                                  IF struck THEN "excel_strikethrough" ELSE NoText,
                                  IF struck THEN Now ELSE NULL))

\* one iteration of the loop of update_milestones on the milestone table ms,
\* with the row the SELECT returned (0: none)
update_one_milestone(ms, fee_id, project, milestone, existing) ==
  LET struck == milestone.ordinal \in project.completed_milestones
  IN IF existing # NULL
     THEN LET was_completed == ms[existing].completed
              upd == [ms EXCEPT ![existing].amount_value = milestone.amount_value]
          IN IF struck /\ ~was_completed
             THEN [upd EXCEPT ![existing].completed = TRUE,
                              ![existing].completion_source = "excel_strikethrough",
                              ![existing].completion_date = Now]
             ELSE upd
     ELSE Append(ms, MilestoneRow(fee_id, NULL, milestone.ordinal,
                                  milestone.amount_value, struck,
                                  IF struck THEN "excel_strikethrough" ELSE NoText,
                                  IF struck THEN Now ELSE NULL))

RECURSIVE update_milestones_from(_, _, _, _)
update_milestones_from(ms, fee_id, project, k) ==
  IF k > Len(project.milestones) THEN {ms}
  ELSE
    LET milestone == project.milestones[k]
    IN UNION {
         update_milestones_from(
           update_one_milestone(ms, fee_id, project, milestone, existing),
           fee_id, project, k + 1)
         : existing \in fetchone(Select(ms, LAMBDA r :
                              r.fee_id = fee_id /\ r.ordinal = milestone.ordinal)) }

\* the milestone tables update_milestones(fee_id, project) can leave behind
update_milestones(ms, fee_id, project) == update_milestones_from(ms, fee_id, project, 1)

add_finance_comment(t, project) ==
  UNION {
    IF project.finance_comment = "" \/ cm_id = NULL THEN {t}
    ELSE {
      IF engagement_id = NULL THEN t
      ELSE LET row == [engagement_id |-> engagement_id,
                       fingerprint_hash |-> project.finance_comment]
           IN IF row \in SeqToSet(t.billing_finance_comment) THEN t
              ELSE [t EXCEPT !.billing_finance_comment = Append(@, row)]
      : engagement_id \in find_engagement_by_cm(t, cm_id) }
    : cm_id \in find_cm_by_number(t, project.cm_no) }

\* ------------------------------------------------------ the database
\* Text values that lookups compare by substring are sequences of characters.
CM_A == <<1, 0>>
CM_B == <<1, 1>>
CM_C == <<2, 0>>
NAME_1 == <<1, 2>>
NAME_2 == <<3>>
CLIENT_1 == <<5>>
CLIENT_2 == <<6>>

\* project 1 has two C/M numbers, each with an engagement; the first
\* engagement has a fee arrangement.  Project 2 has a C/M number only.
BaseTables ==
  [EmptyTables EXCEPT
     !.billing_project = << Project(NAME_1, CLIENT_1), Project(NAME_2, CLIENT_2) >>,
     !.billing_project_cm_no = << CmNo(1, CM_A), CmNo(1, CM_B), CmNo(2, CM_C) >>,
     !.billing_engagement = << Engagement(1, 1), Engagement(1, 2) >>,
     !.billing_fee_arrangement = << FeeArrangement(1, <<>>, NoText) >>]

\* milestone tables a run can find: none, one completed by hand, and the
\* same ordinal stored twice (once without engagement_id)
InitialMilestones ==
  { <<>>,
    << MilestoneRow(1, 1, "(a)", 5000, TRUE, "manual", Today) >>,
    << MilestoneRow(1, NULL, "(a)", 5000, FALSE, NoText, NULL),
       MilestoneRow(1, 1, "(a)", 5000, FALSE, NoText, NULL) >> }

InitialTables ==
  {[BaseTables EXCEPT !.billing_milestone = ms] : ms \in InitialMilestones}

NoArgs == [dry_run |-> FALSE, row |-> {}]

\* what every run start does to the bookkeeping variables
Begin(s, a, f) ==
  /\ pc = "idle"
  /\ script' = s
  /\ args' = a
  /\ file' = f
  /\ dbBefore' = committed
  /\ nCommits' = 0

InitWith(tables) ==
  /\ db \in tables
  /\ committed = db
  /\ conn = "none"
  /\ script = "none"
  /\ args = NoArgs
  /\ file = <<>>
  /\ pc = "idle"
  /\ local = [i |-> 0]
  /\ dbBefore = db
  /\ nCommits = 0

\* ------------------------------- update-billing-from-excel.py: main()
FinA == [NoFin EXCEPT !.billing = 100, !.collection = 50]

ExcelCells ==
  {Cell(t, r, s) : t \in FeeTexts, r \in {<<>>, <<Run("(B)", TRUE)>>}, s \in BOOLEAN}

\* sample worksheet rows: every fee cell under the first C/M number, and a
\* few rows for the other C/M numbers and for one the database does not know
ExcelRows ==
  {ExcelProject(CM_A, FinA, cell, "note") : cell \in ExcelCells}
  \cup {ExcelProject(CM_B, NoFin, Cell(T_AB, <<>>, s), "") : s \in BOOLEAN}
  \cup {ExcelProject(CM_C, FinA, Cell(T_AB, <<>>, TRUE), "note"),
        ExcelProject(<<9>>, FinA, Cell(T_AB, <<>>, TRUE), "note")}

\* the workbook yields no project, or the connection cannot be opened:
\* sys.exit(1) before the try block
ExcelExitEarly ==
  /\ Begin("excel", NoArgs, <<>>)
  /\ pc' = "failed"
  /\ conn' = "none"
  /\ local' = [i |-> 0, n |-> 0, fee_id |-> NULL,
               milestones |-> <<>>, completed_milestones |-> {}]
  /\ UNCHANGED <<db, committed>>

\* load_excel_data returned n projects and DatabaseUpdater connected
ExcelStart ==
  /\ \E n \in 1..MaxRows :
       local' = [i |-> 1, n |-> n, fee_id |-> NULL,
                 milestones |-> <<>>, completed_milestones |-> {}]
  /\ Begin("excel", NoArgs, <<>>)
  /\ pc' = "loop"
  /\ conn' = "open"
  /\ UNCHANGED <<db, committed>>

\* one iteration of the loop over projects (the row is drawn when reached)
ExcelProcessProject ==
  /\ script = "excel" /\ pc = "loop" /\ local.i <= local.n
  /\ \E project \in ExcelRows :
     \E t1 \in update_financials(db, project) :
     \E fa \in (IF project.fee_arrangement_text # <<>>
                THEN update_fee_arrangement(t1, project)
                ELSE {[t |-> t1, fee_id |-> NULL]}) :
     \E ms \in (IF fa.fee_id # NULL
                THEN update_milestones(fa.t.billing_milestone, fa.fee_id, project)
                ELSE {fa.t.billing_milestone}) :
     \E t3 \in add_finance_comment([fa.t EXCEPT !.billing_milestone = ms], project) :
       /\ db' = t3
       /\ local' = [local EXCEPT !.i = @ + 1,
                                 !.fee_id = fa.fee_id,
                                 !.milestones = project.milestones,
                                 !.completed_milestones = project.completed_milestones]
  /\ UNCHANGED <<committed, conn, script, args, file, pc, dbBefore, nCommits>>

\* an exception inside the try block: sys.exit(1), then finally: close()
ExcelRaise ==
  /\ script = "excel" /\ pc = "loop"
  /\ pc' = "failed"
  /\ conn' = "closed"
  /\ db' = committed
  /\ UNCHANGED <<committed, script, args, file, local, dbBefore, nCommits>>

\* updater.commit() after the loop, then finally: close()
ExcelCommit ==
  /\ script = "excel" /\ pc = "loop" /\ local.i > local.n
  /\ committed' = db
  /\ nCommits' = nCommits + 1
  /\ pc' = "done"
  /\ conn' = "closed"
  /\ UNCHANGED <<db, script, args, file, local, dbBefore>>

InitExcel == InitWith(InitialTables)

NextExcel ==
  \/ ExcelExitEarly
  \/ ExcelStart
  \/ ExcelProcessProject
  \/ ExcelRaise
  \/ ExcelCommit

SpecExcel == InitExcel /\ [][NextExcel]_vars

\* ------------------------------------------------ update-billing-kimi.py
IsOrdinal(o) == o # "none"

\* the single-character markers the case-sensitive clean-up pattern
\* \n\s*\([a-z0-9]\) recognises
IsPlainMarker(o) == o \in {"(a)", "(b)", "(c)", "(1)"}

\* positions of the first occurrence of every ordinal, in text order
find_ordinals(text) ==
  {k \in 1..Len(text) :
     /\ IsOrdinal(text[k].ord)
     /\ \A j \in 1..(k - 1) : lower(text[j].ord) # lower(text[k].ord)}

\* extract_amount on items from..to of the text: the first number above the
\* threshold of 1000; 0 is None
AmountThreshold == 1000

extract_amount(text, from, to) ==
  LET ok == {j \in from..to : text[j].amount > AmountThreshold}
  IN IF ok = {} THEN NULL
     ELSE text[CHOOSE j \in ok : \A i \in ok : j <= i].amount

\* last item of the segment that starts at ordinal position k: up to the next
\* listed ordinal, cut at a marker that starts a new line
SegmentEnd(text, ordinals, k) ==
  LET later == {j \in ordinals : j > k}
      segment_end == IF later = {} THEN Len(text)
                     ELSE (CHOOSE j \in later : \A i \in later : j <= i) - 1
      cuts == {j \in (k + 1)..segment_end : text[j].nl /\ IsPlainMarker(text[j].ord)}
  IN IF cuts = {} THEN segment_end
     ELSE (CHOOSE j \in cuts : \A i \in cuts : j <= i) - 1

KimiMilestone(ordinal, amount, completed) ==
  [ordinal |-> ordinal, amount |-> amount, completed |-> completed]

RECURSIVE kimi_segments(_, _, _, _, _)
kimi_segments(text, ordinals, struck_ordinals, k, acc) ==
  IF k > Len(text) THEN acc
  ELSE IF k \notin ordinals
       THEN kimi_segments(text, ordinals, struck_ordinals, k + 1, acc)
       ELSE
         LET ordinal == lower(text[k].ord)
             completed == ordinal \in struck_ordinals \/ "*" \in struck_ordinals
             m == KimiMilestone(ordinal,
                                extract_amount(text, k, SegmentEnd(text, ordinals, k)),
                                completed)
         IN kimi_segments(text, ordinals, struck_ordinals, k + 1, Append(acc, m))

\* KimiMilestoneParser.parse of update-billing-kimi.py
parse(text, struck_ordinals) ==
  IF text = <<>> THEN <<>>
  ELSE
    LET ordinals == find_ordinals(text)
    IN IF ordinals = {}
       THEN LET amount == extract_amount(text, 1, Len(text))
            IN IF amount # NULL
               THEN << KimiMilestone("(1)", amount, "*" \in struck_ordinals) >>
               ELSE <<>>
       ELSE kimi_segments(text, ordinals, struck_ordinals, 1, <<>>)

\* A shared string of xl/sharedStrings.xml: head stands for its first 50
\* characters; each part carries the letter markers written in its text.
SharedString(head, parts) == [head |-> head, parts |-> parts]
Part(ords, struck) == [ords |-> ords, struck |-> struck]

\* The fee cell as the Kimi loader reads it: text, the first 50 characters
\* (head), whether it is longer than 20 characters, font strike of the cell.
KimiCell(text, head, long, strike) ==
  [text |-> text, head |-> head, long |-> long, strike |-> strike]

extract_for_cell(ss_list, cell) ==
  IF cell.strike THEN {"*"}
  ELSE
    LET matching == {k \in 1..Len(ss_list) :
                       /\ \E q \in 1..Len(ss_list[k].parts) : ss_list[k].parts[q].struck
                       /\ cell.text # <<>> /\ cell.long
                       /\ ss_list[k].head = cell.head}
    IN UNION { UNION { {lower(o) : o \in {x \in ss_list[k].parts[q].ords : IsLetter(x)}}
                       : q \in {r \in 1..Len(ss_list[k].parts) : ss_list[k].parts[r].struck} }
               : k \in matching }

\* one worksheet row as load_excel_data reads it
KimiRow(short, name, client, cm_no, fin, cell) ==
  [short |-> short, project_name |-> name, client_name |-> client,
   cm_no |-> cm_no, fin |-> fin, cell |-> cell]

KimiProject(idx, row, cm_no, ss_list) ==
  LET struck_ordinals == extract_for_cell(ss_list, row.cell)
  IN [row_num |-> idx, project_name |-> row.project_name,
      client_name |-> row.client_name, cm_no |-> cm_no, fin |-> row.fin,
      fee_arrangement_text |-> row.cell.text,
      milestones |-> parse(row.cell.text, struck_ordinals),
      completed_milestones |-> struck_ordinals]

SetMin(S) == CHOOSE x \in S : \A y \in S : x <= y
SetMax(S) == CHOOSE x \in S : \A y \in S : x >= y

SheetMaxRow == FirstDataRow + MaxSheetRows - 1

\* rows_to_process of load_excel_data: (min_row, max_row)
rows_to_process(specific_rows) ==
  IF specific_rows # {}
  THEN <<SetMin(specific_rows), SetMax(specific_rows)>>
  ELSE <<FirstDataRow, SheetMaxRow>>

\* s contains sub as a contiguous subsequence: the ILIKE '%sub%' match
Contains(s, sub) ==
  \E off \in 0..(Len(s) - Len(sub)) : \A k \in 1..Len(sub) : s[off + k] = sub[k]

\* project ids get_project_by_cm can return; 0 is None
get_project_by_cm(t, cm_no) ==
  IF cm_no = <<>> THEN {NULL}
  ELSE
    LET joined(P(_)) == {t.billing_project_cm_no[c].project_id :
                           c \in {x \in Select(t.billing_project_cm_no, P) :
                                    t.billing_project_cm_no[x].project_id
                                      \in 1..Len(t.billing_project)}}
        exact == joined(LAMBDA r : r.cm_no = cm_no)
        partial == joined(LAMBDA r : Contains(r.cm_no, cm_no))
    IN IF exact # {} THEN exact ELSE fetchone(partial)

get_project_by_name(t, project_name, client_name) ==
  IF project_name = <<>> THEN {NULL}
  ELSE
    LET exact == Select(t.billing_project, LAMBDA r : r.project_name = project_name)
        partial == Select(t.billing_project,
                          LAMBDA r : Contains(r.project_name, project_name))
        client == IF client_name # <<>>
                  THEN Select(t.billing_project,
                              LAMBDA r : Contains(r.client_name, client_name))
                  ELSE {}
    IN IF exact # {} THEN exact
       ELSE IF partial # {} THEN partial
       ELSE fetchone(client)

update_project(t, project_id, data) ==
  [t EXCEPT !.billing_project[project_id].client_name = data.client_name]

\* (tables, cm_id) pairs get_or_create_cm_no can return
get_or_create_cm_no(t, project_id, cm_no, data) ==
  { IF result # NULL
    THEN [t |-> [t EXCEPT !.billing_project_cm_no[result] =
                   [@ EXCEPT !.project_id = project_id,
                             !.billing_to_date_usd = data.fin.billing,
                             !.collected_to_date_usd = data.fin.collection,
                             !.ubt_usd = data.fin.ubt,
                             !.billing_credit_usd = data.fin.credit_usd,
                             !.billing_credit_cny = data.fin.credit_cny,
                             !.ubt_cny = data.fin.ubt_cny,
                             !.financials_updated_at = Now]],
          id |-> result]
    ELSE [t |-> [t EXCEPT !.billing_project_cm_no =
                   Append(@, [CmNo(project_id, cm_no) EXCEPT
                             !.billing_to_date_usd = data.fin.billing,
                             !.collected_to_date_usd = data.fin.collection,
                             !.ubt_usd = data.fin.ubt,
                             !.billing_credit_usd = data.fin.credit_usd,
                             !.billing_credit_cny = data.fin.credit_cny,
                             !.ubt_cny = data.fin.ubt_cny,
                             !.financials_updated_at = Now])],
          id |-> Len(t.billing_project_cm_no) + 1]
    : result \in find_cm_by_number(t, cm_no) }

get_or_create_engagement(t, project_id, cm_id) ==
  { IF result # NULL THEN [t |-> t, id |-> result]
    ELSE [t |-> [t EXCEPT !.billing_engagement = Append(@, Engagement(project_id, cm_id))],
          id |-> Len(t.billing_engagement) + 1]
    : result \in find_engagement_by_cm(t, cm_id) }

get_or_create_fee_arrangement(t, engagement_id, data) ==
  { IF result # NULL
    THEN [t |-> [t EXCEPT !.billing_fee_arrangement[result] =
                   [@ EXCEPT !.raw_text = data.fee_arrangement_text,
                             !.parser_version = "kimi-v1"]],
          id |-> result]
    ELSE [t |-> [t EXCEPT !.billing_fee_arrangement =
                   Append(@, FeeArrangement(engagement_id, data.fee_arrangement_text,
                                            "kimi-v1"))],
          id |-> Len(t.billing_fee_arrangement) + 1]
    : result \in fetchone(Select(t.billing_fee_arrangement,
                                 LAMBDA r : r.engagement_id = engagement_id)) }

\* one iteration of the loop of upsert_milestones, with the row the SELECT
\* returned (0: none)
upsert_one_milestone(ms, engagement_id, fee_id, m, result) ==
  IF result # NULL
  THEN [ms EXCEPT ![result] =
          [@ EXCEPT !.amount_value = m.amount,
                    !.completed = m.completed,
                    !.completion_source = IF m.completed THEN "excel_strikethrough" ELSE @,
                    !.completion_date = IF m.completed /\ ~ms[result].completed
                                        THEN Now ELSE @]]
  ELSE Append(ms, MilestoneRow(fee_id, engagement_id, m.ordinal, m.amount, m.completed,
                               IF m.completed THEN "excel_strikethrough" ELSE NoText,
                               IF m.completed THEN Now ELSE NULL))

RECURSIVE upsert_milestones_from(_, _, _, _, _)
upsert_milestones_from(ms, engagement_id, fee_id, milestones, k) ==
  IF k > Len(milestones) THEN {ms}
  ELSE UNION {
         upsert_milestones_from(
           upsert_one_milestone(ms, engagement_id, fee_id, milestones[k], result),
           engagement_id, fee_id, milestones, k + 1)
         : result \in fetchone(Select(ms, LAMBDA r :
                            r.engagement_id = engagement_id
                            /\ r.ordinal = milestones[k].ordinal)) }

upsert_milestones(ms, engagement_id, fee_id, milestones) ==
  upsert_milestones_from(ms, engagement_id, fee_id, milestones, 1)

\* -------------------------------------- update-billing-kimi.py: main()
\* sample rows of the Transactions sheet
KimiRows ==
  { KimiRow(FALSE, NAME_1, CLIENT_1, CM_A, FinA, KimiCell(T_AB, 1, TRUE, FALSE)),
    KimiRow(FALSE, NAME_1, CLIENT_2, <<>>, NoFin, KimiCell(T_UPPER, 1, TRUE, FALSE)),
    KimiRow(FALSE, <<8>>, <<>>, <<9>>, FinA, KimiCell(T_AB, 2, TRUE, TRUE)),
    KimiRow(FALSE, NAME_2, CLIENT_2, <<2>>, FinA, KimiCell(T_AB, 2, TRUE, TRUE)),
    KimiRow(TRUE, NAME_1, CLIENT_1, CM_A, FinA, KimiCell(T_AB, 1, TRUE, FALSE)) }

\* sample contents of xl/sharedStrings.xml
SharedStringLists ==
  { <<>>,
    << SharedString(1, << Part({"(A)"}, TRUE), Part({"(b)"}, FALSE) >>) >> }

SheetRows == FirstDataRow..SheetMaxRow

\* argparse: --dry-run, --row (repeatable; the empty set is "not given")
KimiStart ==
  /\ \E dry_run \in BOOLEAN, row \in SUBSET SheetRows, ss_list \in SharedStringLists :
       /\ Begin("kimi", [dry_run |-> dry_run, row |-> row], ss_list)
       /\ local' = [idx |-> rows_to_process(row)[1], max_row |-> rows_to_process(row)[2],
                    last_cm_no |-> <<>>, projects |-> <<>>, i |-> 1, written |-> {}]
  /\ pc' = "load"
  /\ conn' = "none"
  /\ UNCHANGED <<db, committed>>

\* the ProjectData list after one more iteration of the row loop of
\* load_excel_data on worksheet row idx with content row
load_row(projects, last_cm_no, idx, row, ss_list) ==
  IF row.short THEN [projects |-> projects, last_cm_no |-> last_cm_no]
  ELSE IF row.cm_no = <<>>
  THEN IF last_cm_no # <<>>
       THEN [projects |-> Append(projects, KimiProject(idx, row, last_cm_no, ss_list)),
             last_cm_no |-> last_cm_no]
       ELSE [projects |-> projects, last_cm_no |-> last_cm_no]
  ELSE [projects |-> Append(projects, KimiProject(idx, row, row.cm_no, ss_list)),
        last_cm_no |-> row.cm_no]

KimiLoadRow ==
  /\ script = "kimi" /\ pc = "load" /\ local.idx <= local.max_row
  /\ \E row \in KimiRows :
       LET r == load_row(local.projects, local.last_cm_no, local.idx, row, file)
       IN local' = [local EXCEPT !.idx = @ + 1,
                                 !.projects = r.projects,
                                 !.last_cm_no = r.last_cm_no]
  /\ UNCHANGED <<db, committed, conn, script, args, file, pc, dbBefore, nCommits>>

\* the dry-run branch without its return: main goes on to connect
KimiDryRunReturn_falls_through ==
  /\ script = "kimi" /\ pc = "load" /\ local.idx > local.max_row
  /\ args.dry_run
  /\ pc' = "loop"
  /\ conn' = "open"
  /\ UNCHANGED <<db, committed, script, args, file, local, dbBefore, nCommits>>

\* if args.dry_run: return
KimiDryRunReturn ==
  /\ script = "kimi" /\ pc = "load" /\ local.idx > local.max_row
  /\ args.dry_run
  /\ pc' = "done"
  /\ UNCHANGED <<db, committed, conn, script, args, file, local, dbBefore, nCommits>>

\* updater.connect()
KimiConnect ==
  /\ script = "kimi" /\ pc = "load" /\ local.idx > local.max_row
  /\ ~args.dry_run
  /\ pc' = "loop"
  /\ conn' = "open"
  /\ UNCHANGED <<db, committed, script, args, file, local, dbBefore, nCommits>>

\* the tables one iteration of the loop over projects can leave behind
kimi_process(t, project) ==
  UNION {
    UNION {
      IF project_id = NULL THEN {t}
      ELSE UNION {
        UNION {
          UNION {
            { [f.t EXCEPT !.billing_milestone = ms]
              : ms \in (IF project.milestones # <<>>
                        THEN upsert_milestones(f.t.billing_milestone, e.id, f.id,
                                               project.milestones)
                        ELSE {f.t.billing_milestone}) }
            : f \in get_or_create_fee_arrangement(e.t, e.id, project) }
          : e \in get_or_create_engagement(c.t, project_id, c.id) }
        : c \in get_or_create_cm_no(update_project(t, project_id, project),
                                    project_id, project.cm_no, project) }
      : project_id \in (IF by_cm # NULL THEN {by_cm}
                        ELSE get_project_by_name(t, project.project_name,
                                                 project.client_name)) }
    : by_cm \in get_project_by_cm(t, project.cm_no) }

\* the loop body with a commit after each project
KimiProcessProject_commits ==
  /\ script = "kimi" /\ pc = "loop" /\ local.i <= Len(local.projects)
  /\ LET project == local.projects[local.i]
     IN \E t \in kimi_process(db, project) :
          /\ db' = t
          /\ committed' = t
          /\ nCommits' = nCommits + 1
          /\ local' = [local EXCEPT !.i = @ + 1,
                         !.written = IF t # db THEN @ \cup {project.row_num} ELSE @]
  /\ UNCHANGED <<conn, script, args, file, pc, dbBefore>>

KimiProcessProject ==
  /\ script = "kimi" /\ pc = "loop" /\ local.i <= Len(local.projects)
  /\ LET project == local.projects[local.i]
     IN \E t \in kimi_process(db, project) :
          /\ db' = t
          /\ local' = [local EXCEPT !.i = @ + 1,
                         !.written = IF t # db THEN @ \cup {project.row_num} ELSE @]
  /\ UNCHANGED <<committed, conn, script, args, file, pc, dbBefore, nCommits>>

\* an exception inside the try block: rollback(), raise, finally: close()
KimiRaise ==
  /\ script = "kimi" /\ pc = "loop"
  /\ pc' = "failed"
  /\ conn' = "closed"
  /\ db' = committed
  /\ UNCHANGED <<committed, script, args, file, local, dbBefore, nCommits>>

\* updater.commit() after the loop, then finally: close()
KimiCommit ==
  /\ script = "kimi" /\ pc = "loop" /\ local.i > Len(local.projects)
  /\ committed' = db
  /\ nCommits' = nCommits + 1
  /\ pc' = "done"
  /\ conn' = "closed"
  /\ UNCHANGED <<db, script, args, file, local, dbBefore>>

NextKimi ==
  \/ KimiStart
  \/ KimiLoadRow
  \/ KimiDryRunReturn
  \/ KimiConnect
  \/ KimiProcessProject
  \/ KimiRaise
  \/ KimiCommit

SpecKimi == InitExcel /\ [][NextKimi]_vars

NextBatch ==
  \/ ExcelExitEarly
  \/ ExcelStart
  \/ ExcelProcessProject
  \/ ExcelRaise
  \/ ExcelCommit
  \/ KimiStart
  \/ KimiLoadRow
  \/ KimiDryRunReturn
  \/ KimiConnect
  \/ KimiProcessProject
  \/ KimiRaise
  \/ KimiCommit

SpecBatch == InitExcel /\ [][NextBatch]_vars

\* ---------- update-billing-from-excel.py and update-billing-kimi.py in turn
\* one-row worksheets both loaders read alike: a C/M number of project 1
\* with its name, a plain fee text, the cell struck through as a whole or not
Worksheets ==
  {[cm_no |-> c, text |-> t, strike |-> s] :
     c \in {CM_A, CM_B}, t \in {T_AB, T_UPPER}, s \in BOOLEAN}

\* the row as load_excel_data of update-billing-from-excel.py returns it
sheet_excel_project(w) ==
  ExcelProject(w.cm_no, FinA, Cell(w.text, <<>>, w.strike), "")

\* the row as load_excel_data of update-billing-kimi.py returns it
sheet_kimi_project(w) ==
  KimiProject(FirstDataRow,
              KimiRow(FALSE, NAME_1, CLIENT_1, w.cm_no, FinA,
                      KimiCell(w.text, 1, TRUE, w.strike)),
              w.cm_no, <<>>)

InitRuns ==
  /\ db = BaseTables
  /\ committed = db
  /\ conn = "none"
  /\ script = "none"
  /\ args = NoArgs
  /\ file = <<>>
  /\ pc = "idle"
  /\ \E w \in Worksheets : local = [i |-> 0, run |-> 0, sheet |-> w]
  /\ dbBefore = db
  /\ nCommits = 0

\* one of the two scripts is started on the worksheet: the workbook is
\* loaded and the connection opened
SheetRunStart ==
  /\ pc \in {"idle", "done", "failed"}
  /\ local.run < MaxRuns
  /\ \E s \in {"excel", "kimi"} : script' = s
  /\ local' = [local EXCEPT !.i = 1, !.run = @ + 1]
  /\ pc' = "loop"
  /\ conn' = "open"
  /\ db' = committed
  /\ dbBefore' = committed
  /\ nCommits' = 0
  /\ UNCHANGED <<committed, args, file>>

\* the loop body of the started script on the row of the worksheet
SheetProcessProject ==
  /\ pc = "loop" /\ local.i = 1 /\ local.run > 0
  /\ \/ /\ script = "excel"
        /\ \E project \in {sheet_excel_project(local.sheet)} :
           \E t1 \in update_financials(db, project) :
           \E fa \in (IF project.fee_arrangement_text # <<>>
                      THEN update_fee_arrangement(t1, project)
                      ELSE {[t |-> t1, fee_id |-> NULL]}) :
           \E ms \in (IF fa.fee_id # NULL
                      THEN update_milestones(fa.t.billing_milestone, fa.fee_id, project)
                      ELSE {fa.t.billing_milestone}) :
           \E t3 \in add_finance_comment([fa.t EXCEPT !.billing_milestone = ms], project) :
             db' = t3
     \/ /\ script = "kimi"
        /\ \E t \in kimi_process(db, sheet_kimi_project(local.sheet)) : db' = t
  /\ local' = [local EXCEPT !.i = 2]
  /\ UNCHANGED <<committed, conn, script, args, file, pc, dbBefore, nCommits>>

\* an exception inside the try block: rollback, finally: close()
SheetRaise ==
  /\ pc = "loop" /\ local.run > 0
  /\ pc' = "failed"
  /\ conn' = "closed"
  /\ db' = committed
  /\ UNCHANGED <<committed, script, args, file, local, dbBefore, nCommits>>

\* updater.commit() after the loop, then finally: close()
SheetCommit ==
  /\ pc = "loop" /\ local.i = 2 /\ local.run > 0
  /\ committed' = db
  /\ nCommits' = nCommits + 1
  /\ pc' = "done"
  /\ conn' = "closed"
  /\ UNCHANGED <<db, script, args, file, local, dbBefore>>

NextRuns ==
  \/ SheetRunStart
  \/ SheetProcessProject
  \/ SheetRaise
  \/ SheetCommit

SpecRuns == InitRuns /\ [][NextRuns]_vars

\* ------------------------------------------------ smart-parse-milestones.py
SmartMilestone(ordinal, amount_usd, completed) ==
  [ordinal |-> ordinal, amount_usd |-> amount_usd, completed |-> completed]

RECURSIVE smart_segments(_, _, _, _)
smart_segments(text, strikethrough_ordinals, k, acc) ==
  IF k > Len(text) THEN acc
  ELSE IF ~IsOrdinal(text[k].ord)
       THEN smart_segments(text, strikethrough_ordinals, k + 1, acc)
       ELSE LET ordinal == lower(text[k].ord)
            IN smart_segments(text, strikethrough_ordinals, k + 1,
                 Append(acc, SmartMilestone(ordinal, text[k].amount,
                                            ordinal \in strikethrough_ordinals)))

\* SmartMilestoneParser.parse: one milestone per marker occurrence
smart_parse(text, strikethrough_ordinals) ==
  smart_segments(text, strikethrough_ordinals, 1, <<>>)

\* DatabaseUpdater._upsert_milestone without the SELECT: every parsed
\* milestone is inserted
smart_upsert_milestone_always_inserts(ms, fee_id, m, existing) ==
  Append(ms, MilestoneRow(fee_id, NULL, m.ordinal, m.amount_usd, m.completed,
                          IF m.completed THEN "excel_strikethrough" ELSE NoText,
                          IF m.completed THEN Now ELSE NULL))

\* DatabaseUpdater._upsert_milestone, with the row the SELECT returned
smart_upsert_milestone(ms, fee_id, m, existing) ==
  IF existing # NULL
  THEN LET upd == [ms EXCEPT ![existing].amount_value = m.amount_usd]
       IN IF m.completed /\ ~ms[existing].completed
          THEN [upd EXCEPT ![existing].completed = TRUE,
                           ![existing].completion_source = "excel_strikethrough",
                           ![existing].completion_date = Now]
          ELSE upd
  ELSE Append(ms, MilestoneRow(fee_id, NULL, m.ordinal, m.amount_usd, m.completed,
                               IF m.completed THEN "excel_strikethrough" ELSE NoText,
                               IF m.completed THEN Now ELSE NULL))

RECURSIVE smart_upsert_from(_, _, _, _)
smart_upsert_from(ms, fee_id, milestones, k) ==
  IF k > Len(milestones) THEN {ms}
  ELSE UNION {
         smart_upsert_from(smart_upsert_milestone(ms, fee_id, milestones[k], existing),
                           fee_id, milestones, k + 1)
         : existing \in fetchone(Select(ms, LAMBDA r :
                              r.fee_id = fee_id /\ r.ordinal = milestones[k].ordinal)) }

\* the tables DatabaseUpdater.update can have written when it commits
smart_update(t, cm_no, milestones, raw_text) ==
  UNION {
    IF cm_id = NULL THEN {t}
    ELSE UNION {
      IF engagement_id = NULL THEN {t}
      ELSE UNION {
        LET fee_id == IF fee # NULL THEN fee ELSE Len(t.billing_fee_arrangement) + 1
            t1 == IF fee # NULL
                  THEN [t EXCEPT !.billing_fee_arrangement[fee].raw_text = raw_text]
                  ELSE [t EXCEPT !.billing_fee_arrangement =
                          Append(@, FeeArrangement(engagement_id, raw_text, NoText))]
        IN { [t1 EXCEPT !.billing_milestone = ms]
             : ms \in smart_upsert_from(t1.billing_milestone, fee_id, milestones, 1) }
        : fee \in fetchone(Select(t.billing_fee_arrangement,
                                  LAMBDA r : r.engagement_id = engagement_id)) }
      : engagement_id \in find_engagement_by_cm(t, cm_id) }
    : cm_id \in find_cm_by_number(t, cm_no) }

\* sample rows with a fee text longer than ten characters, with the struck
\* ordinals extract_strikethrough found for the row
SmartRows ==
  {[cm_no |-> CM_A, text |-> t, completed |-> c] :
     t \in {T_AB, T_UPPER}, c \in {{}, {"(a)"}}}
  \cup {[cm_no |-> <<9>>, text |-> T_AB, completed |-> {"(b)"}]}

\* rows collected; updater = None if args.dry_run else DatabaseUpdater(...)
SmartStart ==
  /\ \E dry_run \in BOOLEAN, n \in 0..MaxRows :
       /\ Begin("smart", [dry_run |-> dry_run, row |-> {}], <<>>)
       /\ local' = [i |-> 1, n |-> n, parsed |-> 0]
       /\ conn' = IF dry_run THEN "none" ELSE "open"
  /\ pc' = "loop"
  /\ UNCHANGED <<db, committed>>

\* one iteration of the loop over rows; update() commits, or rolls back
\* when a statement raises
SmartProcessRow ==
  /\ script = "smart" /\ pc = "loop" /\ local.i <= local.n
  /\ \E item \in SmartRows :
       LET milestones == smart_parse(item.text, item.completed)
       IN /\ local' = [local EXCEPT !.i = @ + 1,
                                    !.parsed = IF milestones # <<>> THEN 1 ELSE @]
          /\ IF milestones # <<>> /\ ~args.dry_run
             THEN \/ \E t \in smart_update(db, item.cm_no, milestones, item.text) :
                       /\ db' = t
                       /\ committed' = t
                       /\ nCommits' = nCommits + 1
                  \/ /\ db' = committed
                     /\ UNCHANGED <<committed, nCommits>>
             ELSE UNCHANGED <<db, committed, nCommits>>
  /\ UNCHANGED <<conn, script, args, file, pc, dbBefore>>

\* end of the loop; finally: updater.close() if there is an updater
SmartDone ==
  /\ script = "smart" /\ pc = "loop" /\ local.i > local.n
  /\ pc' = "done"
  /\ conn' = IF conn = "open" THEN "closed" ELSE conn
  /\ UNCHANGED <<db, committed, script, args, file, local, dbBefore, nCommits>>

\* --------------------------------------------------- ai-parse-milestones.py
\* main() stops before it connects: the openai package or the API key is
\* missing (sys.exit), or the first row with a project name and a fee text of
\* ten characters or more reaches fees_to.append, an undefined name
AiStop ==
  /\ \E dry_run \in BOOLEAN : Begin("ai", [dry_run |-> dry_run, row |-> {}], <<>>)
  /\ local' = [i |-> 0]
  /\ pc' = "failed"
  /\ conn' = "none"
  /\ UNCHANGED <<db, committed>>

\* no row qualifies: fees_to_process and parsed_fees stay empty
AiStart ==
  /\ \E dry_run \in BOOLEAN : Begin("ai", [dry_run |-> dry_run, row |-> {}], <<>>)
  /\ local' = [i |-> 0]
  /\ pc' = "parsed"
  /\ conn' = "none"
  /\ UNCHANGED <<db, committed>>

\* if args.dry_run: print only
AiDryRun ==
  /\ script = "ai" /\ pc = "parsed" /\ args.dry_run
  /\ pc' = "done"
  /\ UNCHANGED <<db, committed, conn, script, args, file, local, dbBefore, nCommits>>

\* else: DatabaseUpdater(...), the loop over the empty parsed_fees, close()
AiUpdate ==
  /\ script = "ai" /\ pc = "parsed" /\ ~args.dry_run
  /\ pc' = "done"
  /\ conn' = "closed"
  /\ UNCHANGED <<db, committed, script, args, file, local, dbBefore, nCommits>>

\* DatabaseUpdater._upsert_milestone that copies the parsed completion flag
\* into an existing row
ai_upsert_milestone_overwrites(ms, fee_id, milestone, existing) ==
  IF existing # NULL
  THEN [ms EXCEPT ![existing].amount_value = milestone.amount_usd,
                  ![existing].completed = milestone.completed,
                  ![existing].completion_source =
                     IF milestone.completed THEN "excel_strikethrough" ELSE NoText,
                  ![existing].completion_date = IF milestone.completed THEN Now ELSE NULL]
  ELSE Append(ms, MilestoneRow(fee_id, NULL, milestone.ordinal, milestone.amount_usd,
                               milestone.completed,
                               IF milestone.completed THEN "excel_strikethrough" ELSE NoText,
                               IF milestone.completed THEN Now ELSE NULL))

\* DatabaseUpdater._upsert_milestone of ai-parse-milestones.py, with the row
\* the SELECT returned
ai_upsert_milestone(ms, fee_id, milestone, existing) ==
  IF existing # NULL
  THEN LET was_completed == ms[existing].completed
           upd == [ms EXCEPT ![existing].amount_value = milestone.amount_usd]
       IN IF milestone.completed /\ ~was_completed
          THEN [upd EXCEPT ![existing].completed = TRUE,
                           ![existing].completion_source = "excel_strikethrough",
                           ![existing].completion_date = Now]
          ELSE upd
  ELSE Append(ms, MilestoneRow(fee_id, NULL, milestone.ordinal, milestone.amount_usd,
                               milestone.completed,
                               IF milestone.completed THEN "excel_strikethrough" ELSE NoText,
                               IF milestone.completed THEN Now ELSE NULL))

\* for milestone in fee.milestones: self._upsert_milestone(fee_id, milestone)
RECURSIVE ai_upsert_from(_, _, _, _)
ai_upsert_from(ms, fee_id, milestones, k) ==
  IF k > Len(milestones) THEN {ms}
  ELSE UNION {
         ai_upsert_from(ai_upsert_milestone(ms, fee_id, milestones[k], existing),
                        fee_id, milestones, k + 1)
         : existing \in fetchone(Select(ms, LAMBDA r :
                              r.fee_id = fee_id /\ r.ordinal = milestones[k].ordinal)) }

\* the tables DatabaseUpdater.update_fee_arrangement can have written when
\* it commits
ai_update_fee_arrangement(t, fee) ==
  UNION {
    IF cm_id = NULL THEN {t}
    ELSE UNION {
      IF engagement_id = NULL THEN {t}
      ELSE UNION {
        LET fee_id == IF existing # NULL THEN existing
                      ELSE Len(t.billing_fee_arrangement) + 1
            t1 == IF existing # NULL
                  THEN [t EXCEPT !.billing_fee_arrangement[existing].raw_text = fee.raw_text]
                  ELSE [t EXCEPT !.billing_fee_arrangement =
                          Append(@, FeeArrangement(engagement_id, fee.raw_text, NoText))]
        IN { [t1 EXCEPT !.billing_milestone = ms]
             : ms \in ai_upsert_from(t1.billing_milestone, fee_id, fee.milestones, 1) }
        : existing \in fetchone(Select(t.billing_fee_arrangement,
                                       LAMBDA r : r.engagement_id = engagement_id)) }
      : engagement_id \in find_engagement_by_cm(t, cm_id) }
    : cm_id \in find_cm_by_number(t, fee.cm_no) }

\* milestones the model can return for a fee text: any list, the same
\* ordinal more than once included
AiMilestones ==
  UNION {[1..n -> {SmartMilestone(o, 7000, c) : o \in {"(a)", "(b)"}, c \in BOOLEAN}]
         : n \in 0..MaxItems}

\* updater.update_fee_arrangement(fee) on a parsed fee arrangement: commit,
\* or rollback when a statement raises.  (main does not get this far with a
\* fee arrangement, see AiStop; the method is applied to the database.)
AiUpdateFeeArrangement ==
  /\ \E cm_no \in {CM_A, CM_B, <<9>>}, milestones \in AiMilestones :
       /\ Begin("ai-update", NoArgs, <<>>)
       /\ local' = [i |-> 0, cm_no |-> cm_no, milestones |-> milestones]
       /\ \/ \E t \in ai_update_fee_arrangement(db,
                        [cm_no |-> cm_no, raw_text |-> T_AB, milestones |-> milestones]) :
               /\ db' = t
               /\ committed' = t
          \/ UNCHANGED <<db, committed>>
  /\ pc' = "done"
  /\ conn' = "open"

\* the three scripts that upsert milestones by (fee_id, ordinal)
NextUpsert ==
  \/ ExcelExitEarly
  \/ ExcelStart
  \/ ExcelProcessProject
  \/ ExcelRaise
  \/ ExcelCommit
  \/ SmartStart
  \/ SmartProcessRow
  \/ SmartDone
  \/ AiUpdateFeeArrangement

SpecUpsert == InitExcel /\ [][NextUpsert]_vars

NextDry ==
  \/ AiStop
  \/ AiStart
  \/ AiDryRun
  \/ AiUpdate
  \/ SmartStart
  \/ SmartProcessRow
  \/ SmartDone
  \/ KimiStart
  \/ KimiLoadRow
  \/ KimiDryRunReturn
  \/ KimiConnect
  \/ KimiProcessProject
  \/ KimiRaise
  \/ KimiCommit

SpecDry == InitExcel /\ [][NextDry]_vars

\* ------------------------------------------------ kimi-parse-milestones.py
\* find_ordinals, extract_amount and the segment arithmetic of this file are
\* the code of update-billing-kimi.py; parse_milestone decides completion.

parse_milestone(ordinal, text, from, to, struck_ordinals) ==
  KimiMilestone(ordinal, extract_amount(text, from, to),
                ordinal \in struck_ordinals)

RECURSIVE parse_text_segments(_, _, _, _, _)
parse_text_segments(text, ordinals, struck_ordinals, k, milestones) ==
  IF k > Len(text) THEN milestones
  ELSE IF k \notin ordinals
       THEN parse_text_segments(text, ordinals, struck_ordinals, k + 1, milestones)
       ELSE parse_text_segments(text, ordinals, struck_ordinals, k + 1,
              Append(milestones,
                     parse_milestone(lower(text[k].ord), text, k,
                                     SegmentEnd(text, ordinals, k), struck_ordinals)))

parse_text(text, struck_ordinals) ==
  IF text = <<>> THEN <<>>
  ELSE
    LET ordinals == find_ordinals(text)
    IN IF ordinals = {}
       THEN LET amount == extract_amount(text, 1, Len(text))
            IN IF amount # NULL
               THEN << KimiMilestone("(1)", amount, "*" \in struck_ordinals) >>
               ELSE <<>>
       ELSE parse_text_segments(text, ordinals, struck_ordinals, 1, <<>>)

\* the test cases of main()
test_cases ==
  { [name |-> "Row 196 (9606) - Partial strikethrough",
     text |-> << Item("(a)", TRUE, 195000, FALSE), Item("(b)", TRUE, 0, FALSE),
                 Item("(a)", FALSE, 260000, FALSE) >>,
     struck |-> {"(a)"}],
    [name |-> "Row 5 (Salus) - All completed",
     text |-> << Item("none", TRUE, 0, FALSE), Item("(a)", FALSE, 630000, FALSE),
                 Item("(b)", TRUE, 630000, FALSE), Item("(c)", TRUE, 630000, FALSE),
                 Item("none", TRUE, 900000, FALSE) >>,
     struck |-> {"*"}],
    [name |-> "Chinese milestone with percentage",
     text |-> << Item("(a)", TRUE, 330000, FALSE), Item("(b)", TRUE, 495000, FALSE) >>,
     struck |-> {}],
    [name |-> "Complex conditional",
     text |-> << Item("(c)", TRUE, 0, FALSE), Item("(a)", FALSE, 0, FALSE),
                 Item("(a)", FALSE, 260000, FALSE) >>,
     struck |-> {}] }

ParserItems ==
  {Item(o, TRUE, amt, FALSE) : o \in {"none", "(a)", "(A)", "(b)"}, amt \in {0, 5000}}
  \cup {Item("(a)", FALSE, 5000, FALSE)}

ParserTexts == UNION {[1..n -> ParserItems] : n \in 0..MaxItems}

StruckSets == SUBSET {"(a)", "(b)", "*"}

InitPure == InitWith({EmptyTables})

ParseDone(name, text, struck_ordinals) ==
  /\ Begin("kimi-parse", NoArgs, <<>>)
  /\ local' = [name |-> name, text |-> text, struck_ordinals |-> struck_ordinals,
               milestones |-> parse_text(text, struck_ordinals)]
  /\ pc' = "done"
  /\ UNCHANGED <<db, committed, conn>>

\* one iteration of the loop over test_cases in main()
ParseTestCase ==
  \E test \in test_cases : ParseDone(test.name, test.text, test.struck)

\* parser.parse_text(fee_text, struck) on a fee cell of the workbook
ParseFeeText ==
  \E text \in ParserTexts, struck \in StruckSets : ParseDone("", text, struck)

NextParse ==
  \/ ParseTestCase
  \/ ParseFeeText

SpecParse == InitPure /\ [][NextParse]_vars

\* ------------------------------------------------ import-completed-from-csv.py
\* the string a sequence of characters spells, as stored in ordinal columns
Spell(chars) ==
  CASE chars = <<"(", "a", ")">> -> "(a)"
    [] chars = <<"(", "b", ")">> -> "(b)"
    [] chars = <<"a">> -> "a"
    [] chars = <<"b">> -> "b"
    [] OTHER -> ""

\* add parentheses if not present
csv_ordinal(ordinal_raw) ==
  IF ordinal_raw # <<>> /\ ordinal_raw[1] # "("
  THEN Spell(<<"(">> \o ordinal_raw \o <<")">>)
  ELSE Spell(ordinal_raw)

CsvRow(achieved, cm_no, ordinal_raw) ==
  [achieved |-> achieved, cm_no |-> cm_no, ordinal_raw |-> ordinal_raw]

CsvRows ==
  {CsvRow(a, c, o) : a \in BOOLEAN, c \in {CM_A, CM_C, <<9>>, <<>>},
                     o \in {<<"a">>, <<"(", "a", ")">>, <<"(", "b", ")">>, <<>>}}

\* every C/M number has an engagement with a fee arrangement and milestones
CsvMilestones ==
  { << MilestoneRow(1, 1, "(a)", 5000, FALSE, NoText, NULL),
       MilestoneRow(2, 2, "(a)", 5000, FALSE, NoText, NULL),
       MilestoneRow(3, 3, "(a)", 5000, FALSE, NoText, NULL),
       MilestoneRow(1, 1, "(b)", 5000, c, IF c THEN "manual" ELSE NoText,
                    IF c THEN Today ELSE NULL) >> : c \in BOOLEAN }

CsvTables ==
  { [BaseTables EXCEPT
       !.billing_engagement = Append(@, Engagement(2, 3)),
       !.billing_fee_arrangement =
          << FeeArrangement(1, <<>>, NoText), FeeArrangement(2, <<>>, NoText),
             FeeArrangement(3, <<>>, NoText) >>,
       !.billing_milestone = ms] : ms \in CsvMilestones }

InitCsv == InitWith(CsvTables)

\* SELECT bp.project_id ... WHERE pcm.cm_no = %s LIMIT 1
csv_find_project(t, cm_no) ==
  fetchone({t.billing_project_cm_no[c].project_id :
              c \in Select(t.billing_project_cm_no, LAMBDA r : r.cm_no = cm_no)})

\* the fee arrangements of the engagements of the project (the IN subquery)
csv_fee_ids(t, project_id) ==
  Select(t.billing_fee_arrangement,
         LAMBDA r : t.billing_engagement[r.engagement_id].project_id = project_id)

\* UPDATE billing_milestone SET completed = TRUE, ... WHERE fee_id IN (...)
\* AND ordinal = %s AND completed = FALSE
csv_update(t, project_id, cm_no, ordinal) ==
  [t EXCEPT !.billing_milestone =
     [id \in 1..Len(@) |->
        IF /\ @[id].fee_id \in csv_fee_ids(t, project_id)
           /\ @[id].ordinal = ordinal /\ ~@[id].completed
        THEN [@[id] EXCEPT !.completed = TRUE, !.completion_date = Now,
                           !.completion_source = "csv_import"]
        ELSE @[id]]]

\* connect_db(); the CSV file has n data rows
CsvStart ==
  /\ \E n \in 0..MaxRows : local' = [i |-> 1, n |-> n, item |-> CsvRow(FALSE, <<>>, <<>>)]
  /\ Begin("csv", NoArgs, <<>>)
  /\ pc' = "loop"
  /\ conn' = "open"
  /\ UNCHANGED <<db, committed>>

\* one CSV row: kept if Achieved_by_strike is 'True' and both C/M number and
\* ordinal are non-empty, then looked up and updated
CsvProcessRow ==
  /\ script = "csv" /\ pc = "loop" /\ local.i <= local.n
  /\ \E item \in CsvRows :
       /\ local' = [local EXCEPT !.i = @ + 1, !.item = item]
       /\ IF item.achieved /\ item.cm_no # <<>> /\ item.ordinal_raw # <<>>
          THEN \E project_id \in csv_find_project(db, item.cm_no) :
                 db' = IF project_id = NULL THEN db
                       ELSE csv_update(db, project_id, item.cm_no,
                                       csv_ordinal(item.ordinal_raw))
          ELSE db' = db
  /\ UNCHANGED <<committed, conn, script, args, file, pc, dbBefore, nCommits>>

\* an uncaught exception ends the process: nothing is committed
CsvRaise ==
  /\ script = "csv" /\ pc = "loop"
  /\ pc' = "failed"
  /\ conn' = "closed"
  /\ db' = committed
  /\ UNCHANGED <<committed, script, args, file, local, dbBefore, nCommits>>

\* conn.commit(), cursor.close(), conn.close()
CsvCommit ==
  /\ script = "csv" /\ pc = "loop" /\ local.i > local.n
  /\ committed' = db
  /\ nCommits' = nCommits + 1
  /\ pc' = "done"
  /\ conn' = "closed"
  /\ UNCHANGED <<db, script, args, file, local, dbBefore>>

NextCsv ==
  \/ CsvStart
  \/ CsvProcessRow
  \/ CsvRaise
  \/ CsvCommit

SpecCsv == InitCsv /\ [][NextCsv]_vars

\* ------------------------ fix-all-milestones.py, update-billing-kimi-fixed.py
\* A description is a sequence of tokens, the text with its commas removed:
\*   num      a run of digits, with or without a two-digit fraction
\*   dash     a hyphen
\*   usd      "USD"            yuan     "元"          dollar   "$"
\*   pay      "支付"            payment  "payment of"  space    white space
\* A float is counted in halves: a fraction is .00 or .50 (frac 0 or 1).
MaxTokens == 3      \* tokens of a description

Float(whole, frac) == whole * 2 + frac

Tok(kind) == [kind |-> kind, whole |-> 0, frac |-> 0]
Num(whole, frac) == [kind |-> "num", whole |-> whole, frac |-> frac]

Tokens ==
  {Num(999, 0), Num(2025, 0), Num(2025, 1), Num(2030, 1), Num(5000, 0),
   Num(12345, 0), Num(20251, 0), Num(50000000, 0)}
  \cup {Tok(k) : k \in {"dash", "usd", "yuan", "dollar", "pay", "payment", "space"}}

\* number of decimal digits of the run
Digits(n) ==
  IF n < 10 THEN 1 ELSE IF n < 100 THEN 2 ELSE IF n < 1000 THEN 3
  ELSE IF n < 10000 THEN 4 ELSE IF n < 100000 THEN 5 ELSE 6

IsNum(text, k) == k \in 1..Len(text) /\ text[k].kind = "num"
IsKind(text, k, kind) == k \in 1..Len(text) /\ text[k].kind = kind

\* \s*: the position after k, past white space
Skip(text, k) == IF IsKind(text, k + 1, "space") THEN k + 2 ELSE k + 1

\* \b next to a digit: the neighbour is not a word character
WordChar(text, k) ==
  k \in 1..Len(text) /\ text[k].kind \in {"num", "usd", "yuan", "pay", "payment"}

Boundary(text, k) ==
  /\ ~WordChar(text, k - 1)
  /\ text[k].frac # 0 \/ ~WordChar(text, k + 1)

SetMinimum(S) == CHOOSE x \in S : \A y \in S : x <= y

\* re.search: the value at the leftmost position of S, or None
Leftmost(S, value(_)) == IF S = {} THEN NULL ELSE value(SetMinimum(S))

IsYear(amount) == Float(2020, 0) <= amount /\ amount <= Float(2030, 0)

valid_description_amount_with_years(amount) ==
  Float(1000, 0) <= amount /\ amount <= Float(10000000, 0)

\* 1000 <= amount <= 10000000 and not (2020 <= amount <= 2030)
valid_description_amount(amount) ==
  Float(1000, 0) <= amount /\ amount <= Float(10000000, 0) /\ ~IsYear(amount)

\* the first candidate that is a match and passes the validation, or None
FirstValid(candidates, valid(_)) ==
  Leftmost({k \in 1..Len(candidates) : candidates[k] # NULL /\ valid(candidates[k])},
           LAMBDA k : candidates[k])

\* the 5+ digit runs between word boundaries, in text order (re.findall)
RECURSIVE LargeNumbers(_, _)
LargeNumbers(text, k) ==
  IF k > Len(text) THEN <<>>
  ELSE IF IsNum(text, k) /\ Digits(text[k].whole) >= 5 /\ Boundary(text, k)
       THEN <<Float(text[k].whole, 0)>> \o LargeNumbers(text, k + 1)
       ELSE LargeNumbers(text, k + 1)

extract_amount_from_description(description) ==
  LET text == description
      after_dash == {k \in 1..Len(text) :
                       /\ text[k].kind = "dash"
                       /\ IsNum(text, Skip(text, k))
                       /\ Digits(text[Skip(text, k)].whole) >= 4}
      before_currency == {k \in 1..Len(text) :
                            /\ IsNum(text, k) /\ Digits(text[k].whole) >= 4
                            /\ IsKind(text, Skip(text, k), "usd")}
      pattern1 == Leftmost(after_dash,
                    LAMBDA k : Float(text[Skip(text, k)].whole, text[Skip(text, k)].frac))
      pattern2 == Leftmost(before_currency,
                    LAMBDA k : Float(text[k].whole, text[k].frac))
  IN FirstValid(<<pattern1, pattern2>> \o LargeNumbers(text, 1),
                valid_description_amount)

\* 1000 <= amount <= 100000000 and not (2020 <= amount <= 2030)
valid_fixed_amount(amount) ==
  Float(1000, 0) <= amount /\ amount <= Float(100000000, 0) /\ ~IsYear(amount)

extract_amount_fixed(text) ==
  LET value(k) == Float(text[k].whole, text[k].frac)
      whole(k) == Float(text[k].whole, 0)
      currency_prefix == {k \in 1..Len(text) :
                            text[k].kind = "dollar" /\ IsNum(text, Skip(text, k))}
      currency_suffix == {k \in 1..Len(text) :
                            /\ IsNum(text, k)
                            /\ \/ IsKind(text, Skip(text, k), "usd")
                               \/ IsKind(text, Skip(text, k), "yuan")}
      dash_suffix == {k \in 1..Len(text) :
                        /\ text[k].kind = "dash"
                        /\ IsNum(text, Skip(text, k))
                        /\ Digits(text[Skip(text, k)].whole) >= 5
                        /\ Skip(text, Skip(text, k)) > Len(text)}
      dash_prefix == {k \in 1..Len(text) :
                        /\ IsNum(text, k) /\ Digits(text[k].whole) >= 5
                        /\ ~WordChar(text, k - 1)
                        /\ IsKind(text, Skip(text, k), "dash")}
      pay == {k \in 1..Len(text) : text[k].kind = "pay" /\ IsNum(text, Skip(text, k))}
      pay_usd == {k \in 1..Len(text) :
                    /\ text[k].kind = "pay"
                    /\ IsKind(text, Skip(text, k), "usd")
                    /\ IsNum(text, Skip(text, Skip(text, k)))}
      amount_at(k) == IF IsKind(text, Skip(text, k), "dollar")
                      THEN Skip(text, Skip(text, k)) ELSE Skip(text, k)
      payment == {k \in 1..Len(text) :
                    text[k].kind = "payment" /\ IsNum(text, amount_at(k))}
  IN FirstValid(<< Leftmost(currency_prefix, LAMBDA k : value(Skip(text, k))),
                   Leftmost(currency_suffix, value),
                   Leftmost(dash_suffix, LAMBDA k : value(Skip(text, k))),
                   Leftmost(dash_prefix, value),
                   Leftmost(pay, LAMBDA k : whole(Skip(text, k))),
                   Leftmost(pay_usd, LAMBDA k : whole(Skip(text, Skip(text, k)))),
                   Leftmost(payment, LAMBDA k : whole(amount_at(k))) >>,
                valid_fixed_amount)

\* one milestone whose stored amount is a year, NULL, or a regular amount
AmountTables ==
  { [EmptyTables EXCEPT !.billing_milestone =
       << MilestoneRow(1, 1, "(a)", a, FALSE, NoText, NULL) >>]
    : a \in {Float(2025, 0), NULL} }

InitAmount ==
  /\ InitWith(AmountTables)

\* the description column of the milestone (and the text given to the
\* extractors) grows by one token
DescriptionToken ==
  /\ pc = "idle" /\ script = "none"
  /\ Len(file) < MaxTokens
  /\ \E tok \in Tokens :
       /\ ~(tok.kind = "num" /\ IsNum(file, Len(file)))   \* a digit run is one token
       /\ file' = Append(file, tok)
  /\ UNCHANGED <<db, committed, conn, script, args, pc, local, dbBefore, nCommits>>

\* fix-all-milestones.py main: connect
FixAllStart ==
  /\ pc = "idle"
  /\ script' = "fix-all"
  /\ dbBefore' = committed
  /\ nCommits' = 0
  /\ local' = [correct_amount |-> NULL, amount |-> NULL]
  /\ pc' = "fix1"
  /\ conn' = "open"
  /\ UNCHANGED <<db, committed, args, file>>

\* the amounts the loop over rows leaves behind: rows selected by sel get
\* the extracted amount when there is one
fix_amounts(ms, sel(_), amount) ==
  [id \in 1..Len(ms) |->
     IF sel(ms[id]) /\ amount # NULL
     THEN [ms[id] EXCEPT !.amount_value = amount]
     ELSE ms[id]]

\* Fix 1: rows whose amount_value is a year 2020..2030; commit
FixAllYears ==
  /\ script = "fix-all" /\ pc = "fix1"
  /\ LET correct_amount == extract_amount_from_description(file)
         years(r) == r.amount_value \in {Float(y, 0) : y \in 2020..2030}
         t == [db EXCEPT !.billing_milestone = fix_amounts(@, years, correct_amount)]
     IN /\ db' = t
        /\ committed' = t
        /\ local' = [local EXCEPT !.correct_amount =
                       IF Select(db.billing_milestone, years) # {}
                       THEN correct_amount ELSE @]
  /\ nCommits' = nCommits + 1
  /\ pc' = "fix2"
  /\ UNCHANGED <<conn, script, args, file, dbBefore>>

\* Fix 2: rows whose amount_value is NULL and that have a description;
\* commit, close
FixAllNulls ==
  /\ script = "fix-all" /\ pc = "fix2"
  /\ LET amount == extract_amount_from_description(file)
         nulls(r) == r.amount_value = NULL /\ file # <<>>
         t == [db EXCEPT !.billing_milestone = fix_amounts(@, nulls, amount)]
     IN /\ db' = t
        /\ committed' = t
        /\ local' = [local EXCEPT !.amount =
                       IF Select(db.billing_milestone, nulls) # {} THEN amount ELSE @]
  /\ nCommits' = nCommits + 1
  /\ pc' = "done"
  /\ conn' = "closed"
  /\ UNCHANGED <<script, args, file, dbBefore>>

\* update-billing-kimi-fixed.py: extract_amount_fixed on a milestone segment
ExtractAmountFixed ==
  /\ pc = "idle"
  /\ script' = "kimi-fixed"
  /\ local' = [amount |-> extract_amount_fixed(file)]
  /\ pc' = "done"
  /\ UNCHANGED <<db, committed, conn, args, file, dbBefore, nCommits>>

NextAmount ==
  \/ DescriptionToken
  \/ FixAllStart
  \/ FixAllYears
  \/ FixAllNulls
  \/ ExtractAmountFixed

SpecAmount == InitAmount /\ [][NextAmount]_vars

\* ------------------------------------------- update-financials-from-excel.py
\* the white-space character str.strip() removes
BLANK == 32

RECURSIVE strip(_)
strip(str) ==
  IF str # <<>> /\ Head(str) = BLANK THEN strip(Tail(str))
  ELSE IF str # <<>> /\ str[Len(str)] = BLANK THEN strip(SubSeq(str, 1, Len(str) - 1))
  ELSE str

\* keys of the dictionaries load_workbook_data returns: stripped, not empty
FinKeys == {CM_A, CM_B, <<9>>}

\* a dictionary: a function on a subset of the keys
Dict(keys, values) == UNION {[K -> values] : K \in SUBSET keys}

TimeFees == Dict({CM_A, CM_B}, [fees_billed : {0, 700}, collected : {0, 300}])
  \cup Dict({<<9>>}, [fees_billed : {700}, collected : {300}])

Ua == Dict({CM_A, <<9>>}, [ubt : {0, 50}])

\* C/M rows with stored financials; the first has a padded number, the last
\* has none
FinTables ==
  { [BaseTables EXCEPT
       !.billing_project_cm_no =
          << [CmNo(1, <<BLANK>> \o CM_A \o <<BLANK>>) EXCEPT
                !.billing_to_date_usd = 100, !.collected_to_date_usd = 100,
                !.ubt_usd = 100, !.financials_updated_at = Today],
             CmNo(1, CM_B),
             [CmNo(2, <<>>) EXCEPT !.ubt_usd = 100] >>] }

InitFin == InitWith(FinTables)

\* the loop body of update_db without the check for an empty SET list
fin_update_row_always(t, cm_id, time_fees, ua) ==
  LET key == strip(t.billing_project_cm_no[cm_id].cm_no)
      has_tf == key \in DOMAIN time_fees
      has_ua == key \in DOMAIN ua
  IN IF ~has_tf /\ ~has_ua THEN t
     ELSE [t EXCEPT
             !.billing_project_cm_no[cm_id].financials_updated_at = Now,
             !.billing_project_cm_no[cm_id].billing_to_date_usd =
                IF has_tf /\ time_fees[key].fees_billed # 0
                THEN time_fees[key].fees_billed ELSE @,
             !.billing_project_cm_no[cm_id].collected_to_date_usd =
                IF has_tf /\ time_fees[key].collected # 0
                THEN time_fees[key].collected ELSE @,
             !.billing_project_cm_no[cm_id].ubt_usd =
                IF has_ua /\ ua[key].ubt # 0 THEN ua[key].ubt ELSE @]

\* the loop body of update_db for the row cm_id
fin_update_row(t, cm_id, time_fees, ua) ==
  LET key == strip(t.billing_project_cm_no[cm_id].cm_no)
      has_tf == key \in DOMAIN time_fees
      has_ua == key \in DOMAIN ua
      set_billing == has_tf /\ time_fees[key].fees_billed # 0
      set_collected == has_tf /\ time_fees[key].collected # 0
      set_ubt == has_ua /\ ua[key].ubt # 0
  IN IF ~has_tf /\ ~has_ua THEN t
     ELSE IF ~set_billing /\ ~set_collected /\ ~set_ubt THEN t
     ELSE [t EXCEPT
             !.billing_project_cm_no[cm_id].financials_updated_at = Now,
             !.billing_project_cm_no[cm_id].billing_to_date_usd =
                IF set_billing THEN time_fees[key].fees_billed ELSE @,
             !.billing_project_cm_no[cm_id].collected_to_date_usd =
                IF set_collected THEN time_fees[key].collected ELSE @,
             !.billing_project_cm_no[cm_id].ubt_usd =
                IF set_ubt THEN ua[key].ubt ELSE @]

\* main: load_workbook_data; update_db: connect, SELECT cm_id, cm_no
FinStart ==
  /\ \E time_fees \in TimeFees, ua \in Ua :
       Begin("fin", NoArgs, [time_fees |-> time_fees, ua |-> ua])
  /\ local' = [i |-> 1, n |-> Len(db.billing_project_cm_no)]
  /\ pc' = "loop"
  /\ conn' = "open"
  /\ UNCHANGED <<db, committed>>

\* one iteration of the loop over cm_rows
FinUpdateRow ==
  /\ script = "fin" /\ pc = "loop" /\ local.i <= local.n
  /\ db' = fin_update_row(db, local.i, file.time_fees, file.ua)
  /\ local' = [local EXCEPT !.i = @ + 1]
  /\ UNCHANGED <<committed, conn, script, args, file, pc, dbBefore, nCommits>>

\* an uncaught exception ends the process before the commit
FinRaise ==
  /\ script = "fin" /\ pc = "loop"
  /\ pc' = "failed"
  /\ conn' = "closed"
  /\ db' = committed
  /\ UNCHANGED <<committed, script, args, file, local, dbBefore, nCommits>>

\* conn.commit(), close
FinCommit ==
  /\ script = "fin" /\ pc = "loop" /\ local.i > local.n
  /\ committed' = db
  /\ nCommits' = nCommits + 1
  /\ pc' = "done"
  /\ conn' = "closed"
  /\ UNCHANGED <<db, script, args, file, local, dbBefore>>

NextFin ==
  \/ FinStart
  \/ FinUpdateRow
  \/ FinRaise
  \/ FinCommit

SpecFin == InitFin /\ [][NextFin]_vars

\* ------------------------------------- import-billing-collection-data.py
\* Strings are sequences of character codes.
HeaderRows == 3
COMMA == 44
DASH == 45
ZERO == 48

\* SQL LOWER on one character and on a string
lower_char(c) == IF c \in 65..90 THEN c + 32 ELSE c

LOWER(str) == [k \in 1..Len(str) |-> lower_char(str[k])]

\* REGEXP_REPLACE(project_name, '\s+', ' ', 'g')
RECURSIVE collapse(_)
collapse(str) ==
  IF Len(str) < 2 THEN str
  ELSE IF str[1] = BLANK /\ str[2] = BLANK THEN collapse(Tail(str))
  ELSE <<str[1]>> \o collapse(Tail(str))

\* ' '.join(project_name.split())
normalize(project_name) == strip(collapse(project_name))

\* normalized_name.split(' - ')[0].strip()
base_name(normalized_name) ==
  LET sep == {k \in 1..Len(normalized_name) - 2 :
                SubSeq(normalized_name, k, k + 2) = <<BLANK, DASH, BLANK>>}
  IN IF sep = {} THEN strip(normalized_name)
     ELSE strip(SubSeq(normalized_name, 1, SetMinimum(sep) - 1))

IsDigits(str) == str # <<>> /\ \A k \in 1..Len(str) : str[k] \in ZERO..ZERO + 9

RECURSIVE decimal(_)
decimal(str) ==
  IF str = <<>> THEN 0
  ELSE decimal(SubSeq(str, 1, Len(str) - 1)) * 10 + (str[Len(str)] - ZERO)

\* float(str(value).replace(',', '')), ValueError caught: 0.0
parse_money(value) ==
  IF value = <<>> \/ value = <<DASH>> THEN 0
  ELSE LET s == strip(SelectSeq(value, LAMBDA c : c # COMMA))
       IN IF IsDigits(s) THEN decimal(s)
          ELSE IF s # <<>> /\ s[1] = DASH /\ IsDigits(Tail(s)) THEN 0 - decimal(Tail(s))
          ELSE 0

\* hashlib.md5(text.encode('utf-8')).hexdigest()
create_fingerprint(text) == <<"md5", text>>

\* a JSON record: the cells the script reads, by key
Record(project_name, billing, collection, remarks, finance_comment) ==
  [key \in {"2", "9", "10", "13", "16"} |->
     CASE key = "2" -> project_name
       [] key = "9" -> billing
       [] key = "10" -> collection
       [] key = "13" -> remarks
       [] key = "16" -> finance_comment]

\* a row the loop must not read: it names a project and a billing amount
HeaderRecord == Record(<<65, 32, 98>>, <<53>>, <<>>, <<>>, <<>>)

JsonRecords ==
  { Record(<<97, 32, 32, 66, 32>>, <<53>>, <<51>>, <<>>, <<67>>),
    Record(<<65, 32, 98, 32, 45, 32, 120>>, <<49, 44, 48>>, <<45>>, <<>>, <<>>),
    Record(<<90>>, <<53>>, <<51>>, <<>>, <<67>>),
    Record(<<32>>, <<53>>, <<51>>, <<>>, <<67>>),
    Record(<<65, 32, 98, 32, 67>>, <<53>>, <<51>>, <<NULL>>, <<67>>),
    Record(<<65, 32, 98>>, <<55>>, <<51>>, <<>>, <<NULL>>),
    Record(<<65, 32, 98>>, <<120>>, <<51>>, <<>>, <<32, 68>>) }

RECURSIVE RecordLists(_)
RecordLists(n) ==
  IF n = 0 THEN {<<>>}
  ELSE RecordLists(n - 1) \cup
       {Append(l, r) : l \in {x \in RecordLists(n - 1) : Len(x) = n - 1}, r \in JsonRecords}

\* json.load(f): the header rows, then the records; or a file with no rows
JsonFiles ==
  {<<>>} \cup
  {<<HeaderRecord, HeaderRecord, HeaderRecord>> \o l : l \in RecordLists(MaxRecords)}

Invoice(engagement_id, amount, at) ==
  [engagement_id |-> engagement_id, invoice_no |-> <<"TOTAL", engagement_id>>,
   amount_value |-> amount, amount_currency |-> "USD", updated_at |-> at]

Payment(invoice_id, amount) ==
  [invoice_id |-> invoice_id, paid_amount_value |-> amount,
   paid_amount_currency |-> "USD", paid_date |-> NULL]

Comment(engagement_id, finance_comment) ==
  [engagement_id |-> engagement_id, comment_raw |-> finance_comment,
   fingerprint_hash |-> create_fingerprint(finance_comment)]

\* The queries with LIMIT 1 return the first matching row of the join in the
\* order the database produces it.  The script writes neither
\* billing_engagement nor billing_project, so that order is part of the
\* database the script reads: engagement_scan, every order being possible.
ScanOrders ==
  {s \in [1..3 -> 1..3] : \A a, b \in 1..3 : s[a] = s[b] => a = b}

ImportTables ==
  { [t \in {"billing_project", "billing_engagement", "engagement_scan",
            "billing_invoice", "billing_payment", "billing_finance_comment"} |->
       CASE t = "billing_project" ->
              << Project(<<65, 32, 98>>, "x"), Project(<<65, 32, 98, 32, 67>>, "y") >>
         [] t = "billing_engagement" ->
              << Engagement(1, 1), Engagement(1, 2), Engagement(2, 3) >>
         [] t = "engagement_scan" -> scan
         [] t = "billing_invoice" -> <<Invoice(1, 9, Today)>>
         [] t = "billing_payment" -> <<>>
         [] t = "billing_finance_comment" -> <<>>]
    : scan \in ScanOrders }

InitImport == InitWith(ImportTables)

\* LOWER(REGEXP_REPLACE(p.project_name, '\s+', ' ', 'g')) of an engagement's project
joined_name(t, engagement_id) ==
  LOWER(collapse(t.billing_project[t.billing_engagement[engagement_id].project_id].project_name))

\* the rows of the exact match: WHERE ... = LOWER(%s)
exact_rows(t, normalized_name) ==
  {e \in 1..Len(t.billing_engagement) : joined_name(t, e) = LOWER(normalized_name)}

\* the rows of the fuzzy match: WHERE ... LIKE LOWER(%s), for base_name + '%'
like_rows(t, pattern) ==
  {e \in 1..Len(t.billing_engagement) :
     /\ Len(joined_name(t, e)) >= Len(pattern)
     /\ SubSeq(joined_name(t, e), 1, Len(pattern)) = pattern}

\* ORDER BY LENGTH(p.project_name) ASC: the rows that can come first
shortest_rows(t, rows) ==
  LET length(e) == Len(t.billing_project[t.billing_engagement[e].project_id].project_name)
  IN {e \in rows : \A o \in rows : length(e) <= length(o)}

\* LIMIT 1, fetchone(): the engagement_id of the first of the rows, or None
first_row(t, rows) ==
  IF rows = {} THEN NULL
  ELSE t.engagement_scan[SetMinimum({k \in 1..Len(t.engagement_scan) :
                                       t.engagement_scan[k] \in rows})]

\* INSERT INTO billing_invoice ... ON CONFLICT (engagement_id, invoice_no)
\* DO UPDATE ... RETURNING invoice_id: the tables and the invoice_id
import_invoice(t, engagement_id, billing_usd) ==
  LET hit == {id \in 1..Len(t.billing_invoice) :
                /\ t.billing_invoice[id].engagement_id = engagement_id
                /\ t.billing_invoice[id].invoice_no = <<"TOTAL", engagement_id>>}
  IN IF hit # {}
     THEN LET invoice_id == SetMinimum(hit)
          IN [t |-> [t EXCEPT !.billing_invoice[invoice_id].amount_value = billing_usd,
                              !.billing_invoice[invoice_id].updated_at = Now],
              invoice_id |-> invoice_id]
     ELSE [t |-> [t EXCEPT !.billing_invoice =
                     Append(@, Invoice(engagement_id, billing_usd, Now))],
           invoice_id |-> Len(t.billing_invoice) + 1]

\* the payment INSERT without the check for an existing payment
import_payment_unchecked(t, invoice_id, collection_usd) ==
  [t EXCEPT !.billing_payment = Append(@, Payment(invoice_id, collection_usd))]

\* SELECT payment_id ... ; if not cur.fetchone(): INSERT INTO billing_payment
import_payment(t, invoice_id, collection_usd) ==
  IF \E id \in 1..Len(t.billing_payment) :
       /\ t.billing_payment[id].invoice_id = invoice_id
       /\ t.billing_payment[id].paid_amount_value = collection_usd
       /\ t.billing_payment[id].paid_amount_currency = "USD"
  THEN t
  ELSE [t EXCEPT !.billing_payment = Append(@, Payment(invoice_id, collection_usd))]

\* INSERT INTO billing_finance_comment ...
\* ON CONFLICT (engagement_id, fingerprint_hash) DO NOTHING
import_comment(t, engagement_id, finance_comment) ==
  IF \E id \in 1..Len(t.billing_finance_comment) :
       /\ t.billing_finance_comment[id].engagement_id = engagement_id
       /\ t.billing_finance_comment[id].fingerprint_hash = create_fingerprint(finance_comment)
  THEN t
  ELSE [t EXCEPT !.billing_finance_comment =
          Append(@, Comment(engagement_id, finance_comment))]

\* cur.execute raises for a string parameter that contains a NUL character;
\* whether a statement raises is decided by the record
raises(str) == \E k \in 1..Len(str) : str[k] = NULL

\* the for loop: the index of the record after the one at index i
next_record_retry(i, outcome) ==
  IF outcome \in {"billing_raised", "comment_raised"} THEN i ELSE i + 1

next_record(i, outcome) == i + 1

ImportLocal(run, first) ==
  [i |-> HeaderRows, visited |-> <<>>, outcomes |-> <<>>, run |-> run, first |-> first,
   imported_billing |-> 0, imported_collection |-> 0,
   imported_comments |-> 0, skipped |-> 0]

\* main: connect, json.load
ImportStart ==
  /\ \E data \in JsonFiles : Begin("import", NoArgs, data)
  /\ local' = ImportLocal(1, committed)
  /\ pc' = "loop"
  /\ conn' = "open"
  /\ UNCHANGED <<db, committed>>

\* the end of an iteration: continue ("blank", "skipped"), conn.rollback()
\* and continue ("billing_raised", "comment_raised"), or conn.commit()
\* ("committed"); t is the transaction's view the iteration leaves, the
\* counters count what the iteration imported
EndIteration(outcome, t, billing, collection, comments) ==
  /\ db' = t
  /\ committed' = IF outcome = "committed" THEN t ELSE committed
  /\ nCommits' = IF outcome = "committed" THEN nCommits + 1 ELSE nCommits
  /\ local' = [local EXCEPT
       !.i = next_record(@, outcome),
       !.visited = Append(@, local.i),
       !.outcomes = Append(@, outcome),
       !.skipped = IF outcome = "skipped" THEN @ + 1 ELSE @,
       !.imported_billing = @ + billing,
       !.imported_collection = @ + collection,
       !.imported_comments = @ + comments]

\* one iteration of the loop over data[3:]
ImportRecord ==
  /\ script = "import" /\ pc = "loop" /\ local.i < Len(file)
  /\ \E record \in {file[local.i + 1]} :
     \E project_name \in {strip(record["2"])},
        finance_comment \in {strip(record["16"])},
        remarks \in {strip(record["13"])},
        billing_usd \in {parse_money(record["9"])},
        collection_usd \in {parse_money(record["10"])} :
     \E normalized_name \in {normalize(project_name)} :
     \E exact \in {exact_rows(db, normalized_name)} :
     \E pattern \in {LOWER(base_name(normalized_name))} :
     \E like \in {IF exact = {} THEN like_rows(db, pattern) ELSE {}} :
     \E engagement_id \in {IF exact # {} THEN first_row(db, exact)
                           ELSE first_row(db, shortest_rows(db, like))} :
     \E invoice \in {IF engagement_id # NULL /\ billing_usd > 0
                     THEN import_invoice(db, engagement_id, billing_usd)
                     ELSE [t |-> db, invoice_id |-> NULL]} :
     \E billed \in {IF invoice.invoice_id # NULL /\ collection_usd > 0
                    THEN import_payment(invoice.t, invoice.invoice_id, collection_usd)
                    ELSE invoice.t} :
     \E commented \in {IF engagement_id # NULL /\ finance_comment # <<>>
                       THEN import_comment(billed, engagement_id, finance_comment)
                       ELSE billed} :
     \E billing \in {IF billing_usd > 0 THEN 1 ELSE 0},
        collection \in {Len(billed.billing_payment) - Len(db.billing_payment)},
        comments \in {Len(commented.billing_finance_comment)
                        - Len(db.billing_finance_comment)} :
       IF project_name = <<>> THEN EndIteration("blank", db, 0, 0, 0)
       ELSE IF engagement_id = NULL THEN EndIteration("skipped", db, 0, 0, 0)
       ELSE IF billing_usd > 0 /\ raises(remarks)
            THEN EndIteration("billing_raised", committed, 0, 0, 0)
       ELSE IF finance_comment # <<>> /\ raises(finance_comment)
            THEN EndIteration("comment_raised", committed, billing, collection, 0)
       ELSE EndIteration("committed", commented, billing, collection, comments)
  /\ UNCHANGED <<conn, script, args, file, pc, dbBefore>>

\* after the last record: the summary, cur.close(), conn.close()
ImportDone ==
  /\ script = "import" /\ pc = "loop" /\ local.i >= Len(file)
  /\ pc' = "done"
  /\ conn' = "closed"
  /\ UNCHANGED <<db, committed, script, args, file, local, dbBefore, nCommits>>

\* the script run again on the same JSON file and the database as it is
ImportAgain ==
  /\ script = "import" /\ pc = "done" /\ local.run = 1
  /\ local' = ImportLocal(2, committed)
  /\ pc' = "loop"
  /\ conn' = "open"
  /\ dbBefore' = committed
  /\ nCommits' = 0
  /\ UNCHANGED <<db, committed, script, args, file>>

NextImport ==
  \/ ImportStart
  \/ ImportRecord
  \/ ImportDone
  \/ ImportAgain

SpecImport == InitImport /\ [][NextImport]_vars

\* the interpreter runs the loop to its end
SpecImportFair ==
  SpecImport /\ WF_vars(ImportRecord) /\ WF_vars(ImportDone)

\* ------------------------------------------------------------------ C1
\* an iteration of the loop of update-billing-from-excel.py in which
\* update_milestones(fee_id, project) was called and returned
ExcelMilestonesReturned ==
  /\ script = "excel"
  /\ pc = "loop" /\ pc' = "loop"
  /\ local'.i = local.i + 1
  /\ local'.fee_id # NULL

\* C1: after update_milestones(fee_id, project) returns, every parsed
\* milestone whose ordinal was detected as struck through is stored completed
\* under that fee_id, and every row the call created as completed or switched
\* to completed carries completion_source 'excel_strikethrough'.
C1_StruckMilestonesCompleted ==
  [][ExcelMilestonesReturned =>
       LET old == db.billing_milestone
           new == db'.billing_milestone
       IN /\ \A k \in 1..Len(local'.milestones) :
               local'.milestones[k].ordinal \in local'.completed_milestones =>
                 \E id \in 1..Len(new) :
                   /\ new[id].fee_id = local'.fee_id
                   /\ new[id].ordinal = local'.milestones[k].ordinal
                   /\ new[id].completed
          /\ \A id \in 1..Len(new) :
               (new[id].completed /\ (id > Len(old) \/ ~old[id].completed)) =>
                 new[id].completion_source = "excel_strikethrough"]_vars

\* a struck milestone of the processed project switched an existing,
\* uncompleted row to completed
C1_Witness ==
  /\ script = "excel" /\ pc = "loop" /\ local.fee_id # NULL
  /\ \E k \in 1..Len(local.milestones) :
       /\ local.milestones[k].ordinal \in local.completed_milestones
       /\ \E id \in 1..Len(db.billing_milestone) :
            /\ id <= Len(committed.billing_milestone)
            /\ ~committed.billing_milestone[id].completed
            /\ db.billing_milestone[id].completed
            /\ db.billing_milestone[id].ordinal = local.milestones[k].ordinal
            /\ db.billing_milestone[id].completion_source = "excel_strikethrough"

\* ------------------------------------------------------------------ C2
\* C2: in a run of ai-parse-milestones.py, smart-parse-milestones.py or
\* update-billing-kimi.py started with --dry-run, no database connection is
\* ever opened, no statement changes a table and nothing is committed: the
\* database is what it was when the run started.
C2_DryRunWritesNothing ==
  (script \in {"ai", "smart", "kimi"} /\ args.dry_run) =>
    /\ conn = "none"
    /\ db = dbBefore
    /\ committed = dbBefore
    /\ nCommits = 0

\* a dry run of update-billing-kimi.py that parsed a project with milestones
\* from the workbook and returned
C2_Witness ==
  /\ script = "kimi" /\ args.dry_run /\ pc = "done"
  /\ \E k \in 1..Len(local.projects) :
       /\ local.projects[k].milestones # <<>>
       /\ get_project_by_cm(db, local.projects[k].cm_no) # {NULL}

\* ------------------------------------------------------------------ C3
BatchAllProcessed ==
  IF script = "excel" THEN local.i > local.n ELSE local.i > Len(local.projects)

\* C3: a run of update-billing-from-excel.py or update-billing-kimi.py that
\* writes commits exactly once, after the last project has been processed;
\* while the loop runs and after an exception ended the run nothing is
\* committed, so the persisted tables are those from before the run.
C3_AllOrNothing ==
  script \in {"excel", "kimi"} =>
    /\ nCommits <= 1
    /\ (pc = "done" /\ ~args.dry_run) =>
         nCommits = 1 /\ BatchAllProcessed /\ committed = db
    /\ pc # "done" => nCommits = 0 /\ committed = dbBefore
    /\ pc = "failed" => db = dbBefore

\* an exception ended a run after an earlier project had changed tables
C3_Witness ==
  /\ script = "kimi" /\ pc = "failed"
  /\ local.i > 1 /\ local.written # {}
  /\ committed = dbBefore

\* ------------------------------------------------------------------ C5
\* C5: when update-billing-kimi.py is given --row values, only the listed
\* worksheet rows become ProjectData and only they are written.
C5_OnlyListedRows ==
  (script = "kimi" /\ args.row # {}) =>
    /\ \A k \in 1..Len(local.projects) : local.projects[k].row_num \in args.row
    /\ local.written \subseteq args.row

\* ------------------------------------------------------------------ C4
\* C4: when the struck-ordinal set given to parse_text contains the
\* all-completed marker "*", every milestone returned is marked completed,
\* whether or not the text has ordinal markers.
C4_StarMarksAllCompleted ==
  (script = "kimi-parse" /\ pc = "done" /\ "*" \in local.struck_ordinals) =>
    \A k \in 1..Len(local.milestones) : local.milestones[k].completed

\* ------------------------------------------------------------------ C6
\* the milestone row belongs to a fee arrangement of an engagement under the
\* C/M number cm_no
MilestoneUnderCm(t, id, cm_no) ==
  LET fee == t.billing_fee_arrangement[t.billing_milestone[id].fee_id]
      eng == t.billing_engagement[fee.engagement_id]
  IN t.billing_project_cm_no[eng.cm_id].cm_no = cm_no

\* C6: a CSV row (C/M number c, ordinal o) changes a billing_milestone row
\* only if the row has ordinal o and belongs to a fee arrangement of an
\* engagement under C/M number c.
C6_OnlyMilestonesOfTheCmNo ==
  [][(script = "csv" /\ pc = "loop" /\ pc' = "loop" /\ local'.i = local.i + 1) =>
       \A id \in 1..Len(db.billing_milestone) :
         db'.billing_milestone[id] # db.billing_milestone[id] =>
           /\ db.billing_milestone[id].ordinal = csv_ordinal(local'.item.ordinal_raw)
           /\ MilestoneUnderCm(db, id, local'.item.cm_no)]_vars

\* ------------------------------------------------------------------ C7
NoneOrAmount(amount) ==
  amount = NULL \/ (amount >= Float(1000, 0) /\ ~IsYear(amount))

\* C7: extract_amount_from_description and extract_amount_fixed return None or
\* an amount of at least 1000 outside 2020..2030, and every amount_value that
\* fix-all-milestones.py has written is outside 2020..2030.
C7_NeverAYear ==
  /\ script = "kimi-fixed" => NoneOrAmount(local.amount)
  /\ script = "fix-all" =>
       /\ NoneOrAmount(local.correct_amount)
       /\ NoneOrAmount(local.amount)
       /\ \A id \in 1..Len(db.billing_milestone) :
            db.billing_milestone[id].amount_value
              # dbBefore.billing_milestone[id].amount_value =>
                ~IsYear(db.billing_milestone[id].amount_value)

\* a description that mentions a year and an amount: the amount replaced the
\* year stored in the row
C7_Witness ==
  /\ script = "fix-all" /\ pc = "done"
  /\ \E k \in 1..Len(file) : IsNum(file, k) /\ IsYear(Float(file[k].whole, file[k].frac))
  /\ IsYear(dbBefore.billing_milestone[1].amount_value)
  /\ db.billing_milestone[1].amount_value = local.correct_amount
  /\ local.correct_amount >= Float(5000, 0)

\* ------------------------------------------------------------------ C8
OtherTables ==
  {"billing_project", "billing_engagement", "billing_fee_arrangement",
   "billing_milestone", "billing_invoice", "billing_payment",
   "billing_finance_comment"}

\* C8: update_db changes only billing_project_cm_no rows whose trimmed cm_no
\* is a key of the workbook data; in such a row only billing_to_date_usd,
\* collected_to_date_usd and ubt_usd, each only when its workbook value is
\* non-zero, and financials_updated_at; a row whose three workbook values are
\* zero or missing is unchanged; no other table is written.
C8_UpdateDbFrame ==
  script = "fin" =>
    /\ \A tbl \in OtherTables : db[tbl] = dbBefore[tbl]
    /\ Len(db.billing_project_cm_no) = Len(dbBefore.billing_project_cm_no)
    /\ \A cm_id \in 1..Len(db.billing_project_cm_no) :
         LET old == dbBefore.billing_project_cm_no[cm_id]
             new == db.billing_project_cm_no[cm_id]
             key == strip(old.cm_no)
             billed == IF key \in DOMAIN file.time_fees
                       THEN file.time_fees[key].fees_billed ELSE 0
             collected == IF key \in DOMAIN file.time_fees
                          THEN file.time_fees[key].collected ELSE 0
             ubt == IF key \in DOMAIN file.ua THEN file.ua[key].ubt ELSE 0
         IN /\ new # old => key \in (DOMAIN file.time_fees \cup DOMAIN file.ua)
            /\ new = [old EXCEPT
                        !.billing_to_date_usd = new.billing_to_date_usd,
                        !.collected_to_date_usd = new.collected_to_date_usd,
                        !.ubt_usd = new.ubt_usd,
                        !.financials_updated_at = new.financials_updated_at]
            /\ new.billing_to_date_usd # old.billing_to_date_usd => billed # 0
            /\ new.collected_to_date_usd # old.collected_to_date_usd => collected # 0
            /\ new.ubt_usd # old.ubt_usd => ubt # 0
            /\ (billed = 0 /\ collected = 0 /\ ubt = 0) => new = old

\* the run committed; the padded C/M number matched a key, one field of its
\* row changed and a zero workbook value left another as it was; a row whose
\* workbook values are all zero was visited
C8_Witness ==
  /\ script = "fin" /\ pc = "done"
  /\ committed.billing_project_cm_no[1].billing_to_date_usd = 700
  /\ committed.billing_project_cm_no[1].collected_to_date_usd = 100
  /\ CM_A \in DOMAIN file.time_fees /\ file.time_fees[CM_A].collected = 0
  /\ CM_B \in DOMAIN file.time_fees
  /\ file.time_fees[CM_B].fees_billed = 0 /\ file.time_fees[CM_B].collected = 0

\* ------------------------------------------------------------------ C9
NoAdditionalRows(t, first) ==
  /\ Len(t.billing_invoice) = Len(first.billing_invoice)
  /\ Len(t.billing_payment) = Len(first.billing_payment)
  /\ Len(t.billing_finance_comment) = Len(first.billing_finance_comment)

SameAmounts(t, first) ==
  /\ \A id \in 1..Len(first.billing_invoice) :
       t.billing_invoice[id].amount_value = first.billing_invoice[id].amount_value
  /\ \A id \in 1..Len(first.billing_payment) :
       t.billing_payment[id].paid_amount_value = first.billing_payment[id].paid_amount_value

\* C9: when import-billing-collection-data.py is run a second time on the
\* same JSON file and the database the first run left, the second run adds
\* no row to billing_invoice, billing_payment or billing_finance_comment,
\* and when it has finished the stored amounts are those the first run left.
C9_SecondRunIdempotent ==
  (script = "import" /\ local.run = 2) =>
    /\ NoAdditionalRows(db, local.first)
    /\ NoAdditionalRows(committed, local.first)
    /\ pc = "done" => SameAmounts(committed, local.first)

\* a second run has finished on a file whose records the first run imported
\* as invoices, a payment and a finance comment
C9_Witness ==
  /\ script = "import" /\ local.run = 2 /\ pc = "done"
  /\ Len(file) > HeaderRows
  /\ nCommits > 0
  /\ Len(committed.billing_invoice) >= 2
  /\ Len(committed.billing_payment) >= 1
  /\ Len(committed.billing_finance_comment) >= 1

\* ----------------------------------------------------------------- C10
\* the records visited so far are those at the indices 3, 4, ... in file
\* order, each once; when the loop has ended they are all of data[3:]
ImportVisits ==
  script = "import" =>
    /\ local.visited = [k \in 1..Len(local.visited) |-> HeaderRows + k - 1]
    /\ local.i = HeaderRows + Len(local.visited)
    /\ pc = "done" =>
         Len(local.visited) =
           IF Len(file) > HeaderRows THEN Len(file) - HeaderRows ELSE 0

own_parts(ss_list, cell) ==
  IF cell.text = T_AB /\ cell.head = 1 /\ ss_list # <<>> THEN ss_list[1].parts
  ELSE <<>>

\* C11: a worksheet row whose own fee cell has no struck text run and no
\* cell-level strikethrough gets no milestone marked completed by
\* load_excel_data, whatever the other cells of the sheet contain.
C11_StruckOnlyFromOwnCell ==
  script = "kimi" =>
    \A k \in 1..Len(local.projects) : \A row \in KimiRows :
      ( /\ local.projects[k] =
             KimiProject(local.projects[k].row_num, row, local.projects[k].cm_no, file)
        /\ ~row.cell.strike
        /\ \A q \in 1..Len(own_parts(file, row.cell)) :
             ~own_parts(file, row.cell)[q].struck )
      => \A j \in 1..Len(local.projects[k].milestones) :
           ~local.projects[k].milestones[j].completed

\* ----------------------------------------------------------------- C12
\* the rows that were completed when the run started are completed in t,
\* with the completion_date and completion_source they had
CompletionKept(t) ==
  \A id \in 1..Len(dbBefore.billing_milestone) :
    dbBefore.billing_milestone[id].completed =>
      /\ id <= Len(t.billing_milestone)
      /\ t.billing_milestone[id].completed
      /\ t.billing_milestone[id].completion_date =
           dbBefore.billing_milestone[id].completion_date
      /\ t.billing_milestone[id].completion_source =
           dbBefore.billing_milestone[id].completion_source

\* C12: in update-billing-from-excel.py, ai-parse-milestones.py and
\* smart-parse-milestones.py a billing_milestone row that was completed
\* before the run stays completed and keeps its completion_date and
\* completion_source, whatever the run finds struck through.
C12_CompletionMonotonic ==
  script \in {"excel", "smart", "ai-update"} =>
    CompletionKept(db) /\ CompletionKept(committed)

\* update_fee_arrangement has updated the amount of a row that was completed
\* before, from a parsed milestone of that ordinal that is not completed
C12_Witness ==
  /\ script = "ai-update"
  /\ committed # dbBefore
  /\ Len(committed.billing_milestone) = Len(dbBefore.billing_milestone)
  /\ \E id \in 1..Len(dbBefore.billing_milestone) :
       /\ dbBefore.billing_milestone[id].completed
       /\ committed.billing_milestone[id].amount_value #
            dbBefore.billing_milestone[id].amount_value
       /\ \E k \in 1..Len(local.milestones) :
            /\ local.milestones[k].ordinal = dbBefore.billing_milestone[id].ordinal
            /\ ~local.milestones[k].completed

\* ----------------------------------------------------------------- C13
\* C13: a billing_milestone row that was completed before a run of
\* update-billing-kimi.py is still completed in the committed database
\* after it, also when the workbook of the run does not strike its ordinal.
C13_KimiCompletionMonotonic ==
  script = "kimi" =>
    \A id \in 1..Len(dbBefore.billing_milestone) :
      dbBefore.billing_milestone[id].completed =>
        /\ id <= Len(committed.billing_milestone)
        /\ committed.billing_milestone[id].completed

\* ----------------------------------------------------------------- C14
\* at most one row of billing_milestone per (fee_id, ordinal)
UniquePerFeeOrdinal(t) ==
  \A i, j \in 1..Len(t.billing_milestone) :
    ( /\ t.billing_milestone[i].fee_id = t.billing_milestone[j].fee_id
      /\ t.billing_milestone[i].ordinal = t.billing_milestone[j].ordinal ) => i = j

\* C14: when billing_milestone holds at most one row per (fee_id, ordinal)
\* before a run of update-billing-from-excel.py, ai-parse-milestones.py or
\* smart-parse-milestones.py, it does so during and after the run, also when
\* the parsed list of a fee arrangement repeats an ordinal.
C14_UpsertKeepsUnique ==
  (script \in {"excel", "smart", "ai-update"} /\ UniquePerFeeOrdinal(dbBefore))
    => UniquePerFeeOrdinal(db) /\ UniquePerFeeOrdinal(committed)

\* smart-parse-milestones.py has committed the fee text "(A) 5000 (a) 7000"
\* on an empty milestone table: the second occurrence of (a) has updated the
\* row the first one inserted
C14_Witness ==
  /\ script = "smart" /\ nCommits > 0
  /\ dbBefore.billing_milestone = <<>>
  /\ Len(committed.billing_milestone) = 1
  /\ committed.billing_milestone[1].ordinal = "(a)"
  /\ committed.billing_milestone[1].amount_value = 7000

\* ----------------------------------------------------------------- C15
\* C15: after any sequence of runs of update-billing-from-excel.py and
\* update-billing-kimi.py on a database that started without milestones,
\* the committed billing_milestone holds at most one row per fee arrangement
\* and ordinal.
C15_OneRowAcrossScripts ==
  \A i, j \in 1..Len(committed.billing_milestone) :
    ( /\ committed.billing_milestone[i].fee_id = committed.billing_milestone[j].fee_id
      /\ committed.billing_milestone[i].ordinal = committed.billing_milestone[j].ordinal )
    => i = j

====
